---- MODULE Spec2Model ----
(***************************************************************************)
(* Model of gex (FriezaForce/gex): the SSH host-block merger               *)
(* (src/ssh/config.rs), the git config adapter (src/git/config.rs), the    *)
(* profile store (src/storage, src/profile) and the profile switcher       *)
(* (src/switcher/mod.rs).                                                  *)
(*                                                                         *)
(* Text is modelled as a sequence of tokens.  A token is a piece of text   *)
(* that the code handles as a unit: a literal piece of a format string     *)
(* ("Host ", the two-space indent, "# GitHub Profile: "), the newline, or  *)
(* one character of a profile name or key name.  A file's content is the   *)
(* flat token sequence, newlines included, so that str::lines, push_str    *)
(* and ends_with are computed as the code computes them.                   *)
(***************************************************************************)
EXTENDS Integers, Sequences, FiniteSets, TLC

VARIABLES
    sshFile,    \* ~/.ssh/config
    sshBak,     \* ~/.ssh/config.bak
    lastOp,     \* the last call of the SSH merger, the file it found, its result
    store,      \* ~/.github-profile-switcher/profiles.json
    keyFiles,   \* the key names that are files of ~/.ssh
    isRepo,     \* whether .git exists in the current directory
    gitcfg,     \* git's user.name and user.email, per scope
    pc,         \* where the running switch_profile call is
    call,       \* the running (or last) switch_profile call
    snap,       \* git config, SSH file and backup when that call began
    returned,   \* what the last switch_profile call returned
    calls,      \* how many switch_profile calls were made
    clock,      \* the time Utc::now() returns
    mop,        \* the last call of the profile manager, the store it found, its result
    status,     \* the last get_config / get_current_status call and its result
    procs,      \* the create_profile calls of two processes, step by step
    vcall,      \* the last call of a Validator function: its input and result
    tui         \* the TuiApp: its AppState, its selections, the last key it handled

sshVars == <<sshFile, sshBak, lastOp>>
envVars == <<store, keyFiles, isRepo, gitcfg>>
switchVars == <<pc, call, snap, returned, calls>>
mgrVars == <<clock, mop, status, procs>>
uiVars == <<vcall, tui>>
vars == <<sshFile, sshBak, lastOp, store, keyFiles, isRepo, gitcfg,
          pc, call, snap, returned, calls, clock, mop, status, procs, vcall, tui>>

---------------------------------------------------------------------------
(* Bounds *)

\* Longest initial SSH config file, in lines.
MaxLines == 3

\* Most profiles in the initial store.
MaxProfiles == 2

\* Most switch_profile calls in one run.
MaxCalls == 2

\* Most calls (of the manager, of the storage service, of switch_profile)
\* in one run of the manager's specifications.
MaxOps == 2

\* Longest run of one character in the middle of a Validator input.
MaxRun == 51

\* Most keys the menu reads in one run.
MaxKeys == 5

---------------------------------------------------------------------------
(* Text primitives *)

NL == "\n"
Space == " "
Indent == "  "
Tab == "\t"
HostKw == "Host "
MarkerPrefix == "# GitHub Profile: "
SpecMarkerPrefix == "# Profile: "

\* Tokens that consist of white space only (char::is_whitespace).
WhitespaceTokens == {Space, Indent, Tab, NL}

\* Tokens whose first character is '#'.
HashTokens == {MarkerPrefix, SpecMarkerPrefix}

\* str::starts_with for a prefix that is one token.
StartsWith(line, tok) == Len(line) > 0 /\ line[1] = tok

RECURSIVE TrimStart(_)
TrimStart(line) ==
    IF line # <<>> /\ line[1] \in WhitespaceTokens
    THEN TrimStart(Tail(line))
    ELSE line

RECURSIVE TrimEnd(_)
TrimEnd(line) ==
    IF line # <<>> /\ line[Len(line)] \in WhitespaceTokens
    THEN TrimEnd(SubSeq(line, 1, Len(line) - 1))
    ELSE line

\* str::trim
Trim(line) == TrimEnd(TrimStart(line))

\* line.trim().is_empty()
TrimIsEmpty(line) == Trim(line) = <<>>

\* line.trim().starts_with('#')
TrimStartsWithHash(line) == Trim(line) # <<>> /\ Trim(line)[1] \in HashTokens

RECURSIVE LinesFrom(_, _, _)
LinesFrom(content, i, cur) ==
    IF i > Len(content)
    THEN IF cur = <<>> THEN <<>> ELSE <<cur>>
    ELSE IF content[i] = NL
         THEN <<cur>> \o LinesFrom(content, i + 1, <<>>)
         ELSE LinesFrom(content, i + 1, Append(cur, content[i]))

\* str::lines: split at every newline; a last line without newline counts,
\* an empty remainder after the last newline does not.
Lines(content) == LinesFrom(content, 1, <<>>)

\* result.ends_with("\n\n")
EndsWithTwoNewlines(result) ==
    Len(result) >= 2 /\ result[Len(result)] = NL /\ result[Len(result) - 1] = NL

---------------------------------------------------------------------------
(* SSH host-block merger: src/ssh/config.rs *)

\* format!("# GitHub Profile: {}", profile.name)
host_marker(name) == <<MarkerPrefix>> \o name

\* format!("github.com-{}", profile.name)
host_name(name) == <<"github.com-">> \o name

\* home_dir.join(".ssh").join(key_name)
get_ssh_key_path(key_name) == <<"~/.ssh/">> \o key_name

\* new_entry with the HostName and User lines in the other order.
new_entry_user_first(profile) ==
    host_marker(profile.name) \o <<NL>>
    \o <<HostKw>> \o host_name(profile.name) \o <<NL>>
    \o <<Indent, "User git", NL>>
    \o <<Indent, "HostName github.com", NL>>
    \o <<Indent, "IdentityFile ">> \o get_ssh_key_path(profile.ssh_key_name) \o <<NL>>
    \o <<Indent, "IdentitiesOnly yes", NL>>

\* The format! that builds new_entry.
new_entry(profile) ==
    host_marker(profile.name) \o <<NL>>
    \o <<HostKw>> \o host_name(profile.name) \o <<NL>>
    \o <<Indent, "HostName github.com", NL>>
    \o <<Indent, "User git", NL>>
    \o <<Indent, "IdentityFile ">> \o get_ssh_key_path(profile.ssh_key_name) \o <<NL>>
    \o <<Indent, "IdentitiesOnly yes", NL>>

RECURSIVE update_skip_block_any_host(_, _, _)
\* update_skip_block without the `&& !in_host_block` of its first test:
\* every Host line is skipped, not only the first.
update_skip_block_any_host(lines, i, in_host_block) ==
    IF i > Len(lines) THEN i
    ELSE LET line == lines[i] IN
         IF StartsWith(line, HostKw)
         THEN update_skip_block_any_host(lines, i + 1, TRUE)
         ELSE IF in_host_block /\ (StartsWith(line, Indent) \/ TrimIsEmpty(line))
         THEN update_skip_block_any_host(lines, i + 1, in_host_block)
         ELSE IF TrimStartsWithHash(line)
         THEN i
         ELSE IF TrimIsEmpty(line)
         THEN update_skip_block_any_host(lines, i + 1, in_host_block)
         ELSE i

RECURSIVE update_skip_block(_, _, _)
\* The inner while loop of update_config_content, entered after the marker:
\* the index of the first line it does not skip.
update_skip_block(lines, i, in_host_block) ==
    IF i > Len(lines) THEN i
    ELSE LET line == lines[i] IN
         IF StartsWith(line, HostKw) /\ ~in_host_block
         THEN update_skip_block(lines, i + 1, TRUE)
         ELSE IF in_host_block /\ (StartsWith(line, Indent) \/ TrimIsEmpty(line))
         THEN update_skip_block(lines, i + 1, in_host_block)
         ELSE IF TrimStartsWithHash(line) \/ StartsWith(line, HostKw)
         THEN i
         ELSE IF TrimIsEmpty(line)
         THEN update_skip_block(lines, i + 1, in_host_block)
         ELSE i

RECURSIVE update_scan(_, _, _, _)
\* The outer while loop of update_config_content: the retained text.
update_scan(lines, i, marker, result) ==
    IF i > Len(lines) THEN result
    ELSE IF lines[i] = marker
         THEN update_scan(lines, update_skip_block(lines, i + 1, FALSE), marker, result)
         ELSE update_scan(lines, i + 1, marker, result \o lines[i] \o <<NL>>)

RECURSIVE Unlines(_)
\* The text of a list of lines, each ended by a newline.
Unlines(ls) == IF ls = <<>> THEN <<>> ELSE Head(ls) \o <<NL>> \o Unlines(Tail(ls))

\* update_config_content without the scan: the entry is appended and an
\* older block of the profile stays.
update_config_content_append(content, profile) ==
    LET result == Unlines(Lines(content))
        sep == IF result # <<>> /\ ~EndsWithTwoNewlines(result) THEN <<NL>> ELSE <<>>
    IN  result \o sep \o new_entry(profile)

\* update_config_content without the ends_with test: a newline is pushed
\* before the entry whenever text was retained.
update_config_content_always_sep(content, profile) ==
    LET result == update_scan(Lines(content), 1, host_marker(profile.name), <<>>)
        sep == IF result # <<>> THEN <<NL>> ELSE <<>>
    IN  result \o sep \o new_entry(profile)

update_config_content(content, profile) ==
    LET result == update_scan(Lines(content), 1, host_marker(profile.name), <<>>)
        sep == IF result # <<>> /\ ~EndsWithTwoNewlines(result) THEN <<NL>> ELSE <<>>
    IN  result \o sep \o new_entry(profile)

RECURSIVE remove_skip_block_to_comment(_, _, _)
\* remove_skip_block that ends only at a comment, at the next Host line or
\* at the end of the file: any other line is skipped.
remove_skip_block_to_comment(lines, i, in_host_block) ==
    IF i > Len(lines) THEN i
    ELSE LET line == lines[i] IN
         IF StartsWith(line, HostKw) /\ ~in_host_block
         THEN remove_skip_block_to_comment(lines, i + 1, TRUE)
         ELSE IF in_host_block /\ (StartsWith(line, Indent) \/ TrimIsEmpty(line))
         THEN remove_skip_block_to_comment(lines, i + 1, in_host_block)
         ELSE IF TrimStartsWithHash(line) \/ StartsWith(line, HostKw)
         THEN i
         ELSE remove_skip_block_to_comment(lines, i + 1, in_host_block)

RECURSIVE remove_skip_block(_, _, _)
\* The inner while loop of remove_host_from_content.
remove_skip_block(lines, i, in_host_block) ==
    IF i > Len(lines) THEN i
    ELSE LET line == lines[i] IN
         IF StartsWith(line, HostKw) /\ ~in_host_block
         THEN remove_skip_block(lines, i + 1, TRUE)
         ELSE IF in_host_block /\ (StartsWith(line, Indent) \/ TrimIsEmpty(line))
         THEN remove_skip_block(lines, i + 1, in_host_block)
         ELSE IF TrimStartsWithHash(line) \/ StartsWith(line, HostKw)
         THEN i
         ELSE IF TrimIsEmpty(line)
         THEN remove_skip_block(lines, i + 1, in_host_block)
         ELSE i

RECURSIVE remove_scan(_, _, _, _)
\* The outer while loop of remove_host_from_content.
remove_scan(lines, i, marker, result) ==
    IF i > Len(lines) THEN result
    ELSE IF lines[i] = marker
         THEN remove_scan(lines, remove_skip_block(lines, i + 1, FALSE), marker, result)
         ELSE remove_scan(lines, i + 1, marker, result \o lines[i] \o <<NL>>)

\* line.starts_with(marker)
HasPrefix(line, marker) ==
    Len(line) >= Len(marker) /\ SubSeq(line, 1, Len(marker)) = marker

RECURSIVE remove_scan_prefix(_, _, _, _)
\* remove_scan with lines[i].starts_with(marker) for lines[i] == marker.
remove_scan_prefix(lines, i, marker, result) ==
    IF i > Len(lines) THEN result
    ELSE IF HasPrefix(lines[i], marker)
         THEN remove_scan_prefix(lines, remove_skip_block(lines, i + 1, FALSE), marker, result)
         ELSE remove_scan_prefix(lines, i + 1, marker, result \o lines[i] \o <<NL>>)

\* remove_host_from_content that takes every line starting with the marker
\* for the marker.
remove_host_from_content_prefix(content, profile_name) ==
    remove_scan_prefix(Lines(content), 1, host_marker(profile_name), <<>>)

remove_host_from_content(content, profile_name) ==
    remove_scan(Lines(content), 1, host_marker(profile_name), <<>>)

\* A file of the file system: absent, or present with its content.
NoFile == [exists |-> FALSE, content |-> <<>>]
FileOf(content) == [exists |-> TRUE, content |-> content]

\* Where an I/O call of an SSH-file operation can fail.  "ensure" is the
\* create_dir_all / fs::write of ensure_ssh_config_exists, which run only
\* when the file is missing.
SshFaults == {"none", "ensure", "backup", "read", "write"}

\* ensure_ssh_config_exists: the file afterwards.
ensure_ssh_config_exists(file) ==
    IF ~file.exists THEN FileOf(<<>>) ELSE file

\* backup_ssh_config that keeps a backup that already exists.
backup_ssh_config_keep(file, bak) ==
    IF file.exists /\ ~bak.exists THEN FileOf(file.content) ELSE bak

\* backup_ssh_config: the backup afterwards (fs::copy overwrites).
backup_ssh_config(file, bak) ==
    IF file.exists THEN FileOf(file.content) ELSE bak

\* add_or_update_host: the file, the backup and the result, for a call whose
\* I/O fails at `fault`.
add_or_update_host(file, bak, profile, fault) ==
    IF ~file.exists /\ fault = "ensure"
    THEN [file |-> file, bak |-> bak, res |-> "PermissionDenied"]
    ELSE LET file1 == ensure_ssh_config_exists(file) IN
         IF fault = "backup"
         THEN [file |-> file1, bak |-> bak, res |-> "PermissionDenied"]
         ELSE LET bak1 == backup_ssh_config(file1, bak) IN
              IF fault \in {"read", "write"}
              THEN [file |-> file1, bak |-> bak1, res |-> "PermissionDenied"]
              ELSE [file |-> FileOf(update_config_content(file1.content, profile)),
                    bak |-> bak1, res |-> "Ok"]

\* remove_host that begins with ensure_ssh_config_exists, as
\* add_or_update_host does.
remove_host_ensures(file, bak, profile_name, fault) ==
    LET file1 == ensure_ssh_config_exists(file) IN
    IF fault = "backup"
    THEN [file |-> file1, bak |-> bak, res |-> "PermissionDenied"]
    ELSE LET bak1 == backup_ssh_config(file1, bak) IN
         IF fault \in {"read", "write"}
         THEN [file |-> file1, bak |-> bak1, res |-> "PermissionDenied"]
         ELSE [file |-> FileOf(remove_host_from_content(file1.content, profile_name)),
               bak |-> bak1, res |-> "Ok"]

\* remove_host, likewise.
remove_host(file, bak, profile_name, fault) ==
    IF ~file.exists
    THEN [file |-> file, bak |-> bak, res |-> "Ok"]
    ELSE IF fault = "backup"
    THEN [file |-> file, bak |-> bak, res |-> "PermissionDenied"]
    ELSE LET bak1 == backup_ssh_config(file, bak) IN
         IF fault \in {"read", "write"}
         THEN [file |-> file, bak |-> bak1, res |-> "PermissionDenied"]
         ELSE [file |-> FileOf(remove_host_from_content(file.content, profile_name)),
               bak |-> bak1, res |-> "Ok"]

\* The faults that can happen to a call on `file`: no I/O call fails that
\* is not made.
UpsertFaults(file) == IF file.exists THEN SshFaults \ {"ensure"} ELSE SshFaults
RemoveFaults(file) == IF file.exists THEN SshFaults \ {"ensure"} ELSE {"none"}

---------------------------------------------------------------------------
(* Profiles and file contents the model draws from *)

NameW == <<"w">>
NameW2 == <<"w", "2">>
KeyA == <<"a">>
KeyB == <<"b">>

\* Profile { name, username, email, ssh_key_name } (src/profile/mod.rs).
Profile(n, u, e, k) == [name |-> n, username |-> u, email |-> e, ssh_key_name |-> k]

NoProfile == Profile(<<>>, <<>>, <<>>, <<>>)

ProfW == Profile(NameW, <<"u1">>, <<"e1">>, KeyA)
ProfW2 == Profile(NameW2, <<"u2">>, <<"e2">>, KeyB)
\* Same name as ProfW, other identity and key: what an update turns ProfW into.
ProfWb == Profile(NameW, <<"u2">>, <<"e1">>, KeyB)

Profiles == {ProfW, ProfW2, ProfWb}
Names == {NameW, NameW2}

\* Lines a user's SSH config can hold before the program touches it.
InitLines ==
    { host_marker(NameW),                 \* a marker of w
      host_marker(NameW2),                \* a marker of w2, which has w as a prefix
      <<HostKw>> \o host_name(NameW),     \* Host github.com-w
      <<Indent, "User admin">>,           \* an indented property
      <<>>,                               \* a blank line
      <<SpecMarkerPrefix>> \o NameW,      \* the comment "# Profile: w", not the code's marker
      <<"Include x">> }                   \* an unindented directive

RECURSIVE SeqsUpTo(_, _)
SeqsUpTo(S, n) ==
    IF n = 0 THEN {<<>>}
    ELSE LET shorter == SeqsUpTo(S, n - 1) IN
         shorter \cup {Append(q, x) : q \in shorter, x \in S}

\* The text without its last newline: a file whose last line is unterminated.
Unterminated(text) == SubSeq(text, 1, Len(text) - 1)

InitContents ==
    LET texts == {Unlines(ls) : ls \in SeqsUpTo(InitLines, MaxLines)} IN
    texts \cup {Unterminated(t) : t \in {x \in texts : Len(x) >= 2 /\ x[Len(x) - 1] # NL}}

InitFiles == {NoFile} \cup {FileOf(c) : c \in InitContents}

---------------------------------------------------------------------------
(* JSON of the store file: serde_json::to_string_pretty and from_str on    *)
(* StorageData (src/storage/mod.rs) and Profile (src/profile/mod.rs)       *)

Quote == "\""
Backslash == "\\"

\* JSON white space between tokens.
JsonWs == {Space, Indent, NL, Tab}

\* StorageData { version, profiles, last_modified }
StorageData(v, ps, lm) == [version |-> v, profiles |-> ps, last_modified |-> lm]

\* One character of a JSON string as written: '"', '\' and the control
\* characters are escaped.
escape_token(c) ==
    IF c = Quote THEN <<Backslash, Quote>>
    ELSE IF c = Backslash THEN <<Backslash, Backslash>>
    ELSE IF c = NL THEN <<Backslash, "n">>
    ELSE IF c = Tab THEN <<Backslash, "t">>
    ELSE <<c>>

\* A string written with no escaping at all.
RECURSIVE format_escaped_str_raw(_)
format_escaped_str_raw(s) ==
    IF s = <<>> THEN <<>> ELSE <<Head(s)>> \o format_escaped_str_raw(Tail(s))

RECURSIVE format_escaped_str(_)
\* The contents of a JSON string, escaped.
format_escaped_str(s) ==
    IF s = <<>> THEN <<>> ELSE escape_token(Head(s)) \o format_escaped_str(Tail(s))

\* A Rust String as a JSON string.
json_string(s) == <<Quote>> \o format_escaped_str(s) \o <<Quote>>

\* PrettyFormatter: two spaces per level.
IndentBy(n) == [i \in 1..n |-> Indent]

RECURSIVE JoinItems(_, _)
\* The items of an object or array, each on its own line, comma-separated.
JoinItems(items, level) ==
    IF items = <<>> THEN <<>>
    ELSE <<NL>> \o IndentBy(level) \o Head(items)
         \o (IF Len(items) > 1 THEN <<",">> ELSE <<>>)
         \o JoinItems(Tail(items), level)

\* An object or array at nesting depth `level`; an empty one is "{}" or "[]".
Block(open, close, level, items) ==
    IF items = <<>> THEN <<open, close>>
    ELSE <<open>> \o JoinItems(items, level + 1)
         \o <<NL>> \o IndentBy(level) \o <<close>>

\* "key": value
Member(key, value) == <<Quote, key, Quote, ":", Space>> \o value

\* #[derive(Serialize)] of Profile: the fields in declaration order.
serialize_profile(p, level) ==
    Block("{", "}", level,
          << Member("name", json_string(p.name)),
             Member("username", json_string(p.username)),
             Member("email", json_string(p.email)),
             Member("ssh_key_name", json_string(p.ssh_key_name)) >>)

\* serde_json::to_string_pretty(&StorageData)
to_string_pretty(data) ==
    Block("{", "}", 0,
          << Member("version", json_string(data.version)),
             Member("profiles",
                    Block("[", "]", 1,
                          [i \in 1..Len(data.profiles) |->
                              serialize_profile(data.profiles[i], 2)])),
             Member("last_modified", json_string(data.last_modified)) >>)

\* The fields of the two structs; every field is required (no serde default).
ProfileFields == {<<"name">>, <<"username">>, <<"email">>, <<"ssh_key_name">>}
DataFields == {<<"version">>, <<"profiles">>, <<"last_modified">>}

\* from_str reads the text in one pass.  The model splits the pass in two:
\* the lexemes of the text (punctuation, and strings with their escapes
\* decoded), then the structs the lexemes make up.  Each pass is a state
\* machine that takes one token at a time; a state is computed once.

Punctuation == {"{", "}", "[", "]", ",", ":"}
Lexeme(kind, val) == [kind |-> kind, val |-> val]

\* The lexer before the first token: not in a string, nothing read.
LexInit == [ok |-> TRUE, in |-> FALSE, esc |-> FALSE, cur |-> <<>>, out |-> <<>>]

\* The lexer after token `tok`.  In a string an escape is decoded, a raw
\* control character is an error, and the closing quote ends the string;
\* outside, white space is skipped and anything but a quote or punctuation
\* is an error.
LexStep(st, tok) ==
    IF ~st.ok THEN st
    ELSE IF st.in /\ st.esc THEN
         IF tok \in {Quote, Backslash} THEN [st EXCEPT !.esc = FALSE, !.cur = Append(@, tok)]
         ELSE IF tok = "n" THEN [st EXCEPT !.esc = FALSE, !.cur = Append(@, NL)]
         ELSE IF tok = "t" THEN [st EXCEPT !.esc = FALSE, !.cur = Append(@, Tab)]
         ELSE [st EXCEPT !.ok = FALSE]
    ELSE IF st.in THEN
         IF tok = Backslash THEN [st EXCEPT !.esc = TRUE]
         ELSE IF tok = Quote
         THEN [st EXCEPT !.in = FALSE, !.cur = <<>>, !.out = Append(@, Lexeme("str", st.cur))]
         ELSE IF tok \in {NL, Tab} THEN [st EXCEPT !.ok = FALSE]
         ELSE [st EXCEPT !.cur = Append(@, tok)]
    ELSE IF tok \in JsonWs THEN st
    ELSE IF tok = Quote THEN [st EXCEPT !.in = TRUE]
    ELSE IF tok \in Punctuation THEN [st EXCEPT !.out = Append(@, Lexeme(tok, <<>>))]
    ELSE [st EXCEPT !.ok = FALSE]

RECURSIVE LexRun(_, _, _, _)
\* The lexer after tokens lo..hi of t, from state st (the range is halved
\* to keep the evaluation shallow).
LexRun(t, lo, hi, st) ==
    IF lo > hi THEN st
    ELSE IF lo = hi THEN LexStep(st, t[lo])
    ELSE CHOOSE r \in {LexRun(t, mid + 1, hi, s) :
                          mid \in {(lo + hi) \div 2},
                          s \in {LexRun(t, lo, (lo + hi) \div 2, st)}} : TRUE

\* What the parser is in: a struct, the profiles array, or an object or
\* array that is the value of a field no struct has (IgnoredAny).
ObjectKinds == {"data", "profile", "object"}
Frame(kind) == [kind |-> kind, expect |-> "first", key |-> <<>>, seen |-> <<>>, items |-> <<>>]

\* The parser before the first lexeme.
ParseInit == [ok |-> TRUE, done |-> FALSE, stack |-> <<>>, val |-> StorageData(<<>>, <<>>, <<>>)]
ParseFail(st) == [st EXCEPT !.ok = FALSE]

\* The fields of a struct.
FieldsOf(kind) ==
    IF kind = "data" THEN DataFields ELSE IF kind = "profile" THEN ProfileFields ELSE {}

\* What the value at this place of frame `top` has to be.
Wanted(top) ==
    IF top.kind = "profiles" THEN "profile"
    ELSE IF top.kind = "data" /\ top.key = <<"profiles">> THEN "profiles"
    ELSE IF top.key \in FieldsOf(top.kind) THEN "str"
    ELSE "any"

\* The frame after it got value v: a field of the struct is kept (twice the
\* same field is an error, found when its key is read), an element of the
\* profiles array is appended, anything else is dropped.
Deliver(top, v) ==
    IF top.kind = "profiles" THEN [top EXCEPT !.items = Append(@, v), !.expect = "next"]
    ELSE IF top.key \in FieldsOf(top.kind)
    THEN [top EXCEPT !.expect = "next",
                     !.seen = [f \in DOMAIN top.seen \cup {top.key} |->
                                  IF f = top.key THEN v ELSE top.seen[f]]]
    ELSE [top EXCEPT !.expect = "next"]

\* The value a closed frame stands for.
ValueOf(top) ==
    IF top.kind = "data"
    THEN StorageData(top.seen[<<"version">>], top.seen[<<"profiles">>],
                     top.seen[<<"last_modified">>])
    ELSE IF top.kind = "profile"
    THEN Profile(top.seen[<<"name">>], top.seen[<<"username">>],
                 top.seen[<<"email">>], top.seen[<<"ssh_key_name">>])
    ELSE top.items

\* The stack with its top frame replaced.
SetTop(st, top) == [st EXCEPT !.stack = [@ EXCEPT ![Len(@)] = top]]
Push(st, kind) == [st EXCEPT !.stack = Append(@, Frame(kind))]

\* The top frame is closed: a struct needs all its fields; its value goes
\* to the frame below, or is the result.
Close(st) ==
    LET top == st.stack[Len(st.stack)]
        below == SubSeq(st.stack, 1, Len(st.stack) - 1)
    IN  IF top.kind \in {"data", "profile"} /\ DOMAIN top.seen # FieldsOf(top.kind)
        THEN ParseFail(st)
        ELSE IF below = <<>>
        THEN [st EXCEPT !.stack = <<>>, !.done = TRUE, !.val = ValueOf(top)]
        ELSE [st EXCEPT !.stack =
                 Append(SubSeq(below, 1, Len(below) - 1),
                        Deliver(below[Len(below)], ValueOf(top)))]

\* A value begins (or, for a string, is) at lexeme lx.
Value(st, lx) ==
    LET top == st.stack[Len(st.stack)]
        want == Wanted(top)
    IN  IF lx.kind = "str" /\ want \in {"str", "any"} THEN SetTop(st, Deliver(top, lx.val))
        ELSE IF lx.kind = "{" /\ want = "profile" THEN Push(st, "profile")
        ELSE IF lx.kind = "{" /\ want = "any" THEN Push(st, "object")
        ELSE IF lx.kind = "[" /\ want = "profiles" THEN Push(st, "profiles")
        ELSE IF lx.kind = "[" /\ want = "any" THEN Push(st, "array")
        ELSE ParseFail(st)

\* The parser after lexeme lx.
ParseStep(st, lx) ==
    IF ~st.ok THEN st
    ELSE IF st.done THEN ParseFail(st)
    ELSE IF st.stack = <<>> THEN
         IF lx.kind = "{" THEN Push(st, "data") ELSE ParseFail(st)
    ELSE LET top == st.stack[Len(st.stack)] IN
         IF top.kind \in ObjectKinds THEN
              IF top.expect \in {"first", "key"} /\ lx.kind = "str"
              THEN IF lx.val \in DOMAIN top.seen THEN ParseFail(st)
                   ELSE SetTop(st, [top EXCEPT !.key = lx.val, !.expect = "colon"])
              ELSE IF top.expect \in {"first", "next"} /\ lx.kind = "}" THEN Close(st)
              ELSE IF top.expect = "colon" /\ lx.kind = ":"
              THEN SetTop(st, [top EXCEPT !.expect = "value"])
              ELSE IF top.expect = "value" THEN Value(st, lx)
              ELSE IF top.expect = "next" /\ lx.kind = ","
              THEN SetTop(st, [top EXCEPT !.expect = "key"])
              ELSE ParseFail(st)
         ELSE IF top.expect \in {"first", "next"} /\ lx.kind = "]" THEN Close(st)
              ELSE IF top.expect \in {"first", "value"} THEN Value(st, lx)
              ELSE IF top.expect = "next" /\ lx.kind = ","
              THEN SetTop(st, [top EXCEPT !.expect = "value"])
              ELSE ParseFail(st)

RECURSIVE ParseRun(_, _, _, _)
\* The parser after lexemes lo..hi of ls, from state st.
ParseRun(ls, lo, hi, st) ==
    IF lo > hi THEN st
    ELSE IF lo = hi THEN ParseStep(st, ls[lo])
    ELSE CHOOSE r \in {ParseRun(ls, mid + 1, hi, s) :
                          mid \in {(lo + hi) \div 2},
                          s \in {ParseRun(ls, lo, (lo + hi) \div 2, st)}} : TRUE

\* The outcome of the two passes: Ok(data), or an error.
Outcome(lexed, parsed) ==
    [ok |-> lexed.ok /\ ~lexed.in /\ parsed.ok /\ parsed.done, val |-> parsed.val]

\* serde_json::from_str::<StorageData>: the whole text is one StorageData.
from_str(text) ==
    CHOOSE r \in { Outcome(lexed, ParseRun(lexed.out, 1, Len(lexed.out), ParseInit)) :
                      lexed \in {LexRun(t, 1, Len(t), LexInit) : t \in {text}} } : TRUE

---------------------------------------------------------------------------
(* Profile store: src/storage/service.rs, src/profile/manager.rs *)

\* The store file, as what serde_json::from_str makes of its text: missing,
\* unparseable, or the StorageData it parses to.
Version == <<"1.0.0">>

\* DateTime::to_rfc3339: the text of instant t.
to_rfc3339(t) == <<ToString(t)>>

StoreData(v, ps, lm) == [state |-> "ok", version |-> v, profiles |-> ps, last_modified |-> lm]
\* A store written at instant 0, before the run began.
StoreOf(profiles) == StoreData(Version, profiles, to_rfc3339(0))
EmptyStore == StoreOf(<<>>)
MissingStore == [state |-> "missing", version |-> <<>>, profiles |-> <<>>, last_modified |-> <<>>]
CorruptStore == [state |-> "corrupt", version |-> <<>>, profiles |-> <<>>, last_modified |-> <<>>]

\* The StorageData a parsed store holds.
DataOf(st) == StorageData(st.version, st.profiles, st.last_modified)

\* The store file after fs::write of `text`.
written(text) ==
    CHOOSE st \in { IF r.ok THEN StoreData(r.val.version, r.val.profiles, r.val.last_modified)
                    ELSE CorruptStore : r \in {from_str(text)} } : TRUE

\* StorageData::new()
StorageData_new == StorageData(Version, <<>>, to_rfc3339(clock))

\* StorageData::touch
touch(data) == [data EXCEPT !.last_modified = to_rfc3339(clock)]

\* Where the I/O of a load can fail: "save" is the write of the initial
\* collection by ensure_config_exists, made only when the file is missing.
StoreFaults == {"none", "save", "read"}
LoadFaults(st) == IF st.state = "missing" THEN StoreFaults ELSE StoreFaults \ {"save"}

\* StorageService::save: the store afterwards and the result.  A write that
\* fails leaves the file as it was.
save(st, data, failed) ==
    IF failed THEN [store |-> st, res |-> "PermissionDenied"]
    ELSE [store |-> written(to_string_pretty(data)), res |-> "Ok"]

\* ensure_config_exists that writes the initial collection over a file that
\* exists.
ensure_config_exists_always(st) == save(st, StorageData_new, FALSE).store

\* StorageService::ensure_config_exists: the store afterwards.
ensure_config_exists(st) ==
    IF st.state = "missing" THEN save(st, StorageData_new, FALSE).store ELSE st

\* load that replaces a file it cannot parse by a new, empty collection.
load_reinit(st, fault) ==
    IF st.state = "missing" /\ fault = "save"
    THEN [store |-> st, res |-> "PermissionDenied", profiles |-> <<>>, data |-> DataOf(st)]
    ELSE CHOOSE r \in {
           IF fault = "read"
           THEN [store |-> st1, res |-> "PermissionDenied", profiles |-> <<>>, data |-> DataOf(st1)]
           ELSE IF st1.state = "corrupt"
           THEN [store |-> save(st1, StorageData_new, FALSE).store, res |-> "Ok",
                 profiles |-> <<>>, data |-> StorageData_new]
           ELSE [store |-> st1, res |-> "Ok", profiles |-> st1.profiles, data |-> DataOf(st1)]
           : st1 \in {ensure_config_exists(st)} } : TRUE

\* StorageService::load: the store afterwards, the result, the data read.
load(st, fault) ==
    IF st.state = "missing" /\ fault = "save"
    THEN [store |-> st, res |-> "PermissionDenied", profiles |-> <<>>, data |-> DataOf(st)]
    ELSE CHOOSE r \in {
           IF fault = "read"
           THEN [store |-> st1, res |-> "PermissionDenied", profiles |-> <<>>, data |-> DataOf(st1)]
           ELSE IF st1.state = "corrupt"
           THEN [store |-> st1, res |-> "ConfigCorrupted", profiles |-> <<>>, data |-> DataOf(st1)]
           ELSE [store |-> st1, res |-> "Ok", profiles |-> st1.profiles, data |-> DataOf(st1)]
           : st1 \in {ensure_config_exists(st)} } : TRUE

\* Iterator::find(|p| p.name == name): the index of the first match, or 0.
FindIndex(profiles, name) ==
    IF \E i \in 1..Len(profiles) : profiles[i].name = name
    THEN CHOOSE i \in 1..Len(profiles) :
            /\ profiles[i].name = name
            /\ \A j \in 1..(i - 1) : profiles[j].name # name
    ELSE 0

\* ProfileManager::get_profile: load, then the first profile of that name.
get_profile(st, name, fault) ==
    CHOOSE r \in {
        LET i == FindIndex(l.profiles, name)
        IN  [store |-> l.store, res |-> l.res, found |-> l.res = "Ok" /\ i # 0,
             profile |-> IF l.res = "Ok" /\ i # 0 THEN l.profiles[i] ELSE NoProfile]
        : l \in {load(st, fault)} } : TRUE

\* Where the I/O of a manager call can fail: the faults of its first load,
\* the read of create_profile's second load, the write of its save.
ManagerFaults == StoreFaults \cup {"read2", "write"}
FirstLoadFault(fault) == IF fault \in StoreFaults THEN fault ELSE "none"

\* What a manager call returns besides its result.
NoOut == [found |-> FALSE, profile |-> NoProfile, profiles |-> <<>>]

\* ProfileManager::profile_exists: load, then any(|p| p.name == name).
profile_exists(st, name, fault) ==
    CHOOSE r \in {
        [store |-> l.store, res |-> l.res,
         out |-> [NoOut EXCEPT !.found = l.res = "Ok" /\ FindIndex(l.profiles, name) # 0]]
        : l \in {load(st, fault)} } : TRUE

\* ProfileManager::get_all_profiles
get_all_profiles(st, fault) ==
    CHOOSE r \in {
        [store |-> l.store, res |-> l.res,
         out |-> [NoOut EXCEPT !.profiles = IF l.res = "Ok" THEN l.profiles ELSE <<>>]]
        : l \in {load(st, fault)} } : TRUE

\* create_profile without the profile_exists check.
create_profile_unchecked(st, profile, fault) ==
    CHOOSE r \in {
        IF l.res # "Ok" THEN [store |-> l.store, res |-> l.res]
        ELSE save(l.store, touch([l.data EXCEPT !.profiles = Append(@, profile)]),
                  fault = "write")
        : l \in {load(st, FirstLoadFault(fault))} } : TRUE

\* ProfileManager::create_profile: the store afterwards and the result.
create_profile(st, profile, fault) ==
    CHOOSE r \in {
        IF e.res # "Ok" THEN [store |-> e.store, res |-> e.res]
        ELSE IF e.out.found THEN [store |-> e.store, res |-> "ProfileExists"]
        ELSE CHOOSE r2 \in {
               IF l.res # "Ok" THEN [store |-> l.store, res |-> l.res]
               ELSE save(l.store, touch([l.data EXCEPT !.profiles = Append(@, profile)]),
                         fault = "write")
               : l \in {load(e.store, IF fault = "read2" THEN "read" ELSE "none")} } : TRUE
        : e \in {profile_exists(st, profile.name, FirstLoadFault(fault))} } : TRUE

\* Vec::remove(index)
RemoveAt(q, i) == SubSeq(q, 1, i - 1) \o SubSeq(q, i + 1, Len(q))

\* update_profile that removes the old profile and pushes the new one.
update_profile_push(st, name, updated_profile, fault) ==
    CHOOSE r \in {
        LET i == FindIndex(l.profiles, name)
        IN  IF l.res # "Ok" THEN [store |-> l.store, res |-> l.res]
            ELSE IF i = 0 THEN [store |-> l.store, res |-> "ProfileNotFound"]
            ELSE save(l.store,
                      touch([l.data EXCEPT !.profiles = Append(RemoveAt(@, i), updated_profile)]),
                      fault = "write")
        : l \in {load(st, FirstLoadFault(fault))} } : TRUE

\* ProfileManager::update_profile
update_profile(st, name, updated_profile, fault) ==
    CHOOSE r \in {
        LET i == FindIndex(l.profiles, name)
        IN  IF l.res # "Ok" THEN [store |-> l.store, res |-> l.res]
            ELSE IF i = 0 THEN [store |-> l.store, res |-> "ProfileNotFound"]
            ELSE save(l.store,
                      touch([l.data EXCEPT !.profiles = [@ EXCEPT ![i] = updated_profile]]),
                      fault = "write")
        : l \in {load(st, FirstLoadFault(fault))} } : TRUE

\* ProfileManager::delete_profile
delete_profile(st, name, fault) ==
    CHOOSE r \in {
        LET i == FindIndex(l.profiles, name)
        IN  IF l.res # "Ok" THEN [store |-> l.store, res |-> l.res]
            ELSE IF i = 0 THEN [store |-> l.store, res |-> "ProfileNotFound"]
            ELSE save(l.store, touch([l.data EXCEPT !.profiles = RemoveAt(@, i)]),
                      fault = "write")
        : l \in {load(st, FirstLoadFault(fault))} } : TRUE

---------------------------------------------------------------------------
(* git config adapter: src/git/config.rs, src/git/executor.rs *)

Scopes == {"Global", "Local"}
OtherScope(sc) == IF sc = "Global" THEN "Local" ELSE "Global"

\* The value of a key that is not set.
Unset == <<"<unset>">>
NoIdentity == [name |-> Unset, email |-> Unset]
OldIdentity == [name |-> <<"u0">>, email |-> <<"e0">>]

\* How a run of the git executable can end (execute_git): exit 0, the
\* executable is missing, another spawn error, a non-zero exit.
GitOutcomes == {"Ok", "GitNotInstalled", "Io", "InvalidInput"}

\* GitConfigManager::set_config on user.name: git's config afterwards.
set_user_name(cfg, scope, value, outcome) ==
    IF outcome = "Ok" THEN [cfg EXCEPT ![scope].name = value] ELSE cfg

\* set_user_email that always passes --global.
set_user_email_global(cfg, scope, value, outcome) ==
    IF outcome = "Ok" THEN [cfg EXCEPT !["Global"].email = value] ELSE cfg

\* GitConfigManager::set_config on user.email.
set_user_email(cfg, scope, value, outcome) ==
    IF outcome = "Ok" THEN [cfg EXCEPT ![scope].email = value] ELSE cfg

\* How a run of `git config <scope> <key>` can end apart from git's answer:
\* the executable is missing, another spawn error, or git exits non-zero for
\* a reason other than an unset key (exit 128: --local outside a work tree,
\* a config file it cannot read or parse).
GetFaults == {"none", "GitNotInstalled", "Io", "exit128"}

\* The run of `git config <scope> user.<key>`: how the process ends, its
\* exit code and its standard output.  git prints the value and a newline,
\* and exits 1 without output when the key is not set.
git_config_run(cfg, scope, key, fault) ==
    IF fault \in {"GitNotInstalled", "Io"} THEN [spawn |-> fault, code |-> 0, stdout |-> <<>>]
    ELSE IF fault = "exit128" THEN [spawn |-> "Ok", code |-> 128, stdout |-> <<>>]
    ELSE IF cfg[scope][key] = Unset THEN [spawn |-> "Ok", code |-> 1, stdout |-> <<>>]
    ELSE [spawn |-> "Ok", code |-> 0, stdout |-> cfg[scope][key] \o <<NL>>]

\* execute_git: Ok(trimmed stdout), or the error.
execute_git(run) ==
    IF run.spawn # "Ok" THEN [res |-> run.spawn, value |-> <<>>]
    ELSE IF run.code = 0 THEN [res |-> "Ok", value |-> Trim(run.stdout)]
    ELSE [res |-> "InvalidInput", value |-> <<>>]

\* GitConfigManager::get_config: Ok(Some(value)), Ok(None) or the error.
get_config(run) ==
    LET r == execute_git(run) IN
    IF r.res = "Ok" THEN [res |-> "Ok", some |-> TRUE, value |-> r.value]
    ELSE IF r.res = "InvalidInput" THEN [res |-> "Ok", some |-> FALSE, value |-> <<>>]
    ELSE [res |-> r.res, some |-> FALSE, value |-> <<>>]

\* GitConfigManager::get_current_profile: user.name, then user.email.
get_current_profile(cfg, scope, fname, femail) ==
    LET u == get_config(git_config_run(cfg, scope, "name", fname))
        e == get_config(git_config_run(cfg, scope, "email", femail))
    IN  IF u.res # "Ok" THEN [res |-> u.res, some |-> FALSE, name |-> <<>>, email |-> <<>>]
        ELSE IF e.res # "Ok" THEN [res |-> e.res, some |-> FALSE, name |-> <<>>, email |-> <<>>]
        ELSE IF u.some /\ e.some
        THEN [res |-> "Ok", some |-> TRUE, name |-> u.value, email |-> e.value]
        ELSE [res |-> "Ok", some |-> FALSE, name |-> <<>>, email |-> <<>>]

\* SSHConfigManager::validate_ssh_key
validate_ssh_key(key_name, files) == key_name \in files

---------------------------------------------------------------------------
(* The SSH merger on its own: any sequence of upserts and removes *)

\* The last call of the profile manager: the store it found and how it ended.
NoData == StorageData(<<>>, <<>>, <<>>)
NoMop == [op |-> "none", name |-> <<>>, profile |-> NoProfile, pre |-> MissingStore,
          fault |-> "none", res |-> "none", out |-> NoOut, at |-> 0,
          data |-> NoData, saved |-> [some |-> FALSE, data |-> NoData]]

\* Option<Profile>::None
None == [some |-> FALSE, profile |-> NoProfile]
Some(profile) == [some |-> TRUE, profile |-> profile]

\* No fault in any of the four runs of git that a status call can make.
NoGetFaults == [sc \in Scopes |-> [name |-> "none", email |-> "none"]]

\* The last get_config or get_current_status call and what it returned.
NoStatus == [op |-> "none", scope |-> "Global", key |-> "name", faults |-> NoGetFaults,
             code |-> 0, res |-> "none", some |-> FALSE, value |-> <<>>,
             global |-> None, local |-> None]

\* A process that runs create_profile(profile): where it is, what it loaded.
Proc(profile) == [pc |-> "profile_exists", profile |-> profile, data |-> NoData,
                  res |-> "running", loaded |-> 0, saved |-> 0]
NoProcs == <<Proc(NoProfile), Proc(NoProfile)>>

\* No call of a Validator function yet.
NoVCall == [fn |-> "none", input |-> <<>>, result |-> FALSE]

\* TuiApp::new(): the main menu, its first item selected, scope Global.
\* profile_index and scope are the fields of AppState::ConfirmSwitch and
\* is_error that of AppState::Message; phase tells whether run_app draws
\* next or reads a key; key is the key that handle_confirm_input was given
\* if it was the last handler to run ("none" after another handler),
\* invoked tells whether it called switch_profile, and keys counts the keys
\* read.
NoTui == [phase |-> "draw", state |-> "MainMenu", profile_index |-> 0, scope |-> "Global",
          is_error |-> FALSE, selected |-> 0, selected_menu_item |-> 0,
          selected_scope |-> "Global", should_quit |-> FALSE,
          key |-> "none", invoked |-> FALSE, keys |-> 0]

NoCall == [name |-> <<>>, scope |-> "Global", profile |-> NoProfile, failedAt |-> "none"]
NoSnap == [git |-> [sc \in Scopes |-> NoIdentity], file |-> NoFile, bak |-> NoFile]

\* What the last operation was, the file it found and how it ended.
NoOp == [op |-> "none", profile |-> NoProfile, name |-> <<>>,
         pre |-> NoFile, fault |-> "none", res |-> "none"]

InitSsh ==
    /\ sshFile \in InitFiles
    /\ sshBak = NoFile
    /\ lastOp = NoOp
    /\ store = EmptyStore
    /\ keyFiles = {}
    /\ isRepo = FALSE
    /\ gitcfg = [sc \in Scopes |-> NoIdentity]
    /\ pc = "idle"
    /\ call = NoCall
    /\ snap = NoSnap
    /\ returned = "none"
    /\ calls = 0
    /\ clock = 1
    /\ mop = NoMop
    /\ status = NoStatus
    /\ procs = NoProcs
    /\ vcall = NoVCall
    /\ tui = NoTui

\* SSHConfigManager::add_or_update_host(profile)
SshUpsert(profile, fault) ==
    LET r == add_or_update_host(sshFile, sshBak, profile, fault) IN
    /\ fault \in UpsertFaults(sshFile)
    /\ sshFile' = r.file
    /\ sshBak' = r.bak
    /\ lastOp' = [op |-> "upsert", profile |-> profile, name |-> profile.name,
                  pre |-> sshFile, fault |-> fault, res |-> r.res]
    /\ UNCHANGED <<envVars, switchVars, mgrVars, uiVars>>

\* SSHConfigManager::remove_host(profile_name)
SshRemove(name, fault) ==
    LET r == remove_host(sshFile, sshBak, name, fault) IN
    /\ fault \in RemoveFaults(sshFile)
    /\ sshFile' = r.file
    /\ sshBak' = r.bak
    /\ lastOp' = [op |-> "remove", profile |-> NoProfile, name |-> name,
                  pre |-> sshFile, fault |-> fault, res |-> r.res]
    /\ UNCHANGED <<envVars, switchVars, mgrVars, uiVars>>

\* The faults the merger's own specification injects; the switcher's injects all.
MergerFaults == {"none", "ensure", "write"}

NextSsh ==
    \/ \E p \in Profiles, f \in MergerFaults : SshUpsert(p, f)
    \/ \E n \in Names, f \in MergerFaults : SshRemove(n, f)

SpecSsh == InitSsh /\ [][NextSsh]_vars

---------------------------------------------------------------------------
(* The profile switcher: src/switcher/mod.rs *)

Identity(profile) == [name |-> profile.username, email |-> profile.email]

\* The stores, SSH files and git configs a switch can find.
InitStores ==
    {MissingStore, CorruptStore} \cup {StoreOf(ps) : ps \in SeqsUpTo(Profiles, MaxProfiles)}

SwitchInitFiles ==
    { NoFile,
      FileOf(Unlines(<< <<"Include x">> >>)),
      FileOf(Unlines(<< host_marker(NameW), <<HostKw>> \o host_name(NameW),
                     <<Indent, "IdentityFile old">> >>)) }

Init ==
    /\ sshFile \in SwitchInitFiles
    /\ sshBak = NoFile
    /\ lastOp = NoOp
    /\ store \in InitStores
    /\ keyFiles \in SUBSET {KeyA, KeyB}
    /\ isRepo \in BOOLEAN
    /\ gitcfg \in {[sc \in Scopes |-> NoIdentity], [sc \in Scopes |-> OldIdentity]}
    /\ pc = "idle"
    /\ call = NoCall
    /\ snap = NoSnap
    /\ returned = "none"
    /\ calls = 0
    /\ clock = 1
    /\ mop = NoMop
    /\ status = NoStatus
    /\ procs = NoProcs
    /\ vcall = NoVCall
    /\ tui = NoTui

\* A step of the call returns `res`: the call is over.
Return(res, at) ==
    /\ pc' = "idle"
    /\ returned' = res
    /\ call' = [call EXCEPT !.failedAt = at]

\* switch_profile(profile_name, scope) is called.
SwitchCall(name, scope) ==
    /\ pc = "idle"
    /\ calls < MaxCalls
    /\ calls' = calls + 1
    /\ pc' = "get_profile"
    /\ call' = [name |-> name, scope |-> scope, profile |-> NoProfile, failedAt |-> "none"]
    /\ snap' = [git |-> gitcfg, file |-> sshFile, bak |-> sshBak]
    /\ returned' = "running"
    /\ UNCHANGED <<sshVars, envVars, mgrVars, uiVars>>

\* 1. self.profile_manager.get_profile(profile_name)?.ok_or_else(ProfileNotFound)?
SwitchGetProfile(fault) ==
    /\ pc = "get_profile"
    /\ fault \in LoadFaults(store)
    /\ \E g \in {get_profile(store, call.name, fault)} :
          /\ store' = g.store
          /\ IF g.res # "Ok" THEN Return(g.res, "load")
             ELSE IF ~g.found THEN Return("ProfileNotFound", "get_profile")
             ELSE /\ pc' = "validate_ssh_key"
                  /\ call' = [call EXCEPT !.profile = g.profile]
                  /\ UNCHANGED returned
    /\ UNCHANGED <<sshVars, keyFiles, isRepo, gitcfg, snap, calls, mgrVars, uiVars>>

\* switch_profile without the key check.
SwitchValidateKey_NoCheck ==
    /\ pc = "validate_ssh_key"
    /\ pc' = "apply_profile"
    /\ UNCHANGED <<call, returned>>
    /\ UNCHANGED <<sshVars, envVars, snap, calls, mgrVars, uiVars>>

\* 2. if !SSHConfigManager::validate_ssh_key(&profile.ssh_key_name)? { return Err(SshKeyNotFound) }
SwitchValidateKey ==
    /\ pc = "validate_ssh_key"
    /\ IF ~validate_ssh_key(call.profile.ssh_key_name, keyFiles)
       THEN Return("SshKeyNotFound", "validate_ssh_key")
       ELSE pc' = "apply_profile" /\ UNCHANGED <<call, returned>>
    /\ UNCHANGED <<sshVars, envVars, snap, calls, mgrVars, uiVars>>

\* apply_profile without the repository check.
ApplyCheckRepo_NoCheck ==
    /\ pc = "apply_profile"
    /\ pc' = "set_user_name"
    /\ UNCHANGED <<call, returned>>
    /\ UNCHANGED <<sshVars, envVars, snap, calls, mgrVars, uiVars>>

\* 3. GitConfigManager::apply_profile: the repository check.
ApplyCheckRepo ==
    /\ pc = "apply_profile"
    /\ IF call.scope = "Local" /\ ~isRepo
       THEN Return("NotGitRepo", "apply_profile")
       ELSE pc' = "set_user_name" /\ UNCHANGED <<call, returned>>
    /\ UNCHANGED <<sshVars, envVars, snap, calls, mgrVars, uiVars>>

\* apply_profile: Self::set_config(scope, "user.name", &profile.username)?
ApplySetName(outcome) ==
    /\ pc = "set_user_name"
    /\ gitcfg' = set_user_name(gitcfg, call.scope, call.profile.username, outcome)
    /\ IF outcome # "Ok"
       THEN Return(outcome, "set_user_name")
       ELSE pc' = "set_user_email" /\ UNCHANGED <<call, returned>>
    /\ UNCHANGED <<sshVars, store, keyFiles, isRepo, snap, calls, mgrVars, uiVars>>

\* apply_profile that puts user.name back when setting user.email fails.
ApplySetEmail_Rollback(outcome) ==
    /\ pc = "set_user_email"
    /\ IF outcome # "Ok"
       THEN /\ gitcfg' = [gitcfg EXCEPT ![call.scope].name = snap.git[call.scope].name]
            /\ Return(outcome, "set_user_email")
       ELSE /\ gitcfg' = set_user_email(gitcfg, call.scope, call.profile.email, outcome)
            /\ pc' = "add_or_update_host" /\ UNCHANGED <<call, returned>>
    /\ UNCHANGED <<sshVars, store, keyFiles, isRepo, snap, calls, mgrVars, uiVars>>

\* apply_profile: Self::set_config(scope, "user.email", &profile.email)?
ApplySetEmail(outcome) ==
    /\ pc = "set_user_email"
    /\ gitcfg' = set_user_email(gitcfg, call.scope, call.profile.email, outcome)
    /\ IF outcome # "Ok"
       THEN Return(outcome, "set_user_email")
       ELSE pc' = "add_or_update_host" /\ UNCHANGED <<call, returned>>
    /\ UNCHANGED <<sshVars, store, keyFiles, isRepo, snap, calls, mgrVars, uiVars>>

\* 4. self.ssh_config.add_or_update_host(&profile)?; Ok(())
SwitchUpdateSsh(fault) ==
    LET r == add_or_update_host(sshFile, sshBak, call.profile, fault) IN
    /\ pc = "add_or_update_host"
    /\ fault \in UpsertFaults(sshFile)
    /\ sshFile' = r.file
    /\ sshBak' = r.bak
    /\ Return(r.res, IF r.res = "Ok" THEN "none" ELSE "add_or_update_host")
    /\ UNCHANGED <<lastOp, envVars, snap, calls, mgrVars, uiVars>>

Next ==
    \/ \E n \in Names, sc \in Scopes : SwitchCall(n, sc)
    \/ \E f \in StoreFaults : SwitchGetProfile(f)
    \/ SwitchValidateKey
    \/ ApplyCheckRepo
    \/ \E o \in GitOutcomes : ApplySetName(o)
    \/ \E o \in GitOutcomes : ApplySetEmail(o)
    \/ \E f \in SshFaults : SwitchUpdateSsh(f)

Spec == Init /\ [][Next]_vars

---------------------------------------------------------------------------
(* The profile manager on its own: any sequence of its calls, and of      *)
(* switch_profile calls whose git and SSH steps meet no fault              *)

\* Same name as ProfW; strings that JSON has to escape.
ProfQ == Profile(NameW, <<"u", Quote, Backslash>>, <<"e1", NL, Tab>>, KeyB)
StoreProfiles == {ProfW, ProfW2, ProfQ}

\* No two profiles of the sequence have the same name.
UniqueNames(ps) == \A i, j \in 1..Len(ps) : ps[i].name = ps[j].name => i = j

\* The stores the manager can find when the run begins.
ManagerInitStores ==
    {MissingStore, CorruptStore} \cup
    {StoreOf(ps) : ps \in {q \in SeqsUpTo(StoreProfiles, MaxProfiles) : UniqueNames(q)}}

\* The SSH file: missing, or as a switch to w leaves an empty file.
ManagerInitFiles == {NoFile, FileOf(update_config_content(<<>>, ProfW))}

InitStore ==
    /\ sshFile \in ManagerInitFiles
    /\ sshBak = NoFile
    /\ lastOp = NoOp
    /\ store \in ManagerInitStores
    /\ keyFiles = {KeyA, KeyB}
    /\ isRepo = TRUE
    /\ gitcfg = [sc \in Scopes |-> NoIdentity]
    /\ pc = "idle"
    /\ call = NoCall
    /\ snap = NoSnap
    /\ returned = "none"
    /\ calls = 0
    /\ clock = 1
    /\ mop = NoMop
    /\ status = NoStatus
    /\ procs = NoProcs
    /\ vcall = NoVCall
    /\ tui = NoTui

\* Another call may begin.
OpsLeft == (clock - 1) + calls < MaxOps

\* A call of the manager runs from its first load to its return: `result`
\* is what the call makes of the store.  The fault injected is one that the
\* call meets.  Time passes.
ManagerCall(op, name, profile, fault, result) ==
    /\ pc = "idle"
    /\ OpsLeft
    /\ \E r \in {result} :
          /\ fault = "none" \/ r.res = "PermissionDenied"
          /\ store' = r.store
          /\ mop' = [NoMop EXCEPT !.op = op, !.name = name, !.profile = profile,
                                  !.pre = store, !.fault = fault, !.res = r.res,
                                  !.out = r.out, !.at = clock]
    /\ clock' = clock + 1
    /\ UNCHANGED <<sshVars, keyFiles, isRepo, gitcfg, switchVars, status, procs, uiVars>>

\* A result with nothing returned besides it.
NoValue(r) == CHOOSE x \in {[store |-> v.store, res |-> v.res, out |-> NoOut] : v \in {r}} : TRUE

CreateProfile(profile, fault) ==
    ManagerCall("create", profile.name, profile, fault,
                NoValue(create_profile(store, profile, fault)))

\* What get_profile returns: Some(profile) or None.
Found(r) ==
    CHOOSE x \in {[store |-> g.store, res |-> g.res,
                   out |-> [NoOut EXCEPT !.found = g.found, !.profile = g.profile]]
                  : g \in {r}} : TRUE

GetProfile(name, fault) ==
    ManagerCall("get", name, NoProfile, fault, Found(get_profile(store, name, fault)))

GetAllProfiles(fault) ==
    ManagerCall("get_all", <<>>, NoProfile, fault, get_all_profiles(store, fault))

UpdateProfile(name, updated_profile, fault) ==
    ManagerCall("update", name, updated_profile, fault,
                NoValue(update_profile(store, name, updated_profile, fault)))

\* handle_delete (src/cli/handlers.rs) calls nothing but this after its
\* profile_exists check and the user's confirmation.
DeleteProfile(name, fault) ==
    ManagerCall("delete", name, NoProfile, fault,
                NoValue(delete_profile(store, name, fault)))

ProfileExists(name, fault) ==
    ManagerCall("exists", name, NoProfile, fault, profile_exists(store, name, fault))

NextStore ==
    \/ \E p \in StoreProfiles, f \in ManagerFaults : CreateProfile(p, f)
    \/ \E n \in Names, f \in StoreFaults : GetProfile(n, f)
    \/ \E f \in StoreFaults : GetAllProfiles(f)
    \/ \E n \in Names, p \in StoreProfiles, f \in ManagerFaults : UpdateProfile(n, p, f)
    \/ \E n \in Names, f \in ManagerFaults : DeleteProfile(n, f)
    \/ \E n \in Names, f \in StoreFaults : ProfileExists(n, f)
    \/ OpsLeft /\ \E n \in Names, sc \in Scopes : SwitchCall(n, sc)
    \/ SwitchGetProfile("none")
    \/ SwitchValidateKey
    \/ ApplyCheckRepo
    \/ ApplySetName("Ok")
    \/ ApplySetEmail("Ok")
    \/ SwitchUpdateSsh("none")

SpecStore == InitStore /\ [][NextStore]_vars

---------------------------------------------------------------------------
(* The storage service on its own: save and load of any collection *)

\* The collections a caller can hand to save.
SaveCollections ==
    { StorageData(h[1], ps, h[2]) :
        h \in {<<Version, to_rfc3339(0)>>, <<<<"2", Quote>>, <<Backslash, "n">>>>},
        ps \in SeqsUpTo(StoreProfiles, MaxProfiles) }

\* StorageService::save(data)
StorageSave(data, failed) ==
    /\ OpsLeft
    /\ \E r \in {save(store, data, failed)} :
          /\ store' = r.store
          /\ mop' = [NoMop EXCEPT !.op = "save", !.pre = store, !.res = r.res, !.at = clock,
                                  !.fault = IF failed THEN "write" ELSE "none",
                                  !.data = data,
                                  !.saved = IF r.res = "Ok" THEN [some |-> TRUE, data |-> data]
                                            ELSE mop.saved]
    /\ clock' = clock + 1
    /\ UNCHANGED <<sshVars, keyFiles, isRepo, gitcfg, switchVars, status, procs, uiVars>>

\* StorageService::load(): what it returns.  The record keeps the
\* collection that the last successful save was given.
StorageLoad(fault) ==
    /\ OpsLeft
    /\ fault \in LoadFaults(store)
    /\ \E l \in {load(store, fault)} :
          /\ store' = l.store
          /\ mop' = [NoMop EXCEPT !.op = "load", !.pre = store, !.res = l.res, !.at = clock,
                                  !.fault = fault, !.data = l.data, !.saved = mop.saved]
    /\ clock' = clock + 1
    /\ UNCHANGED <<sshVars, keyFiles, isRepo, gitcfg, switchVars, status, procs, uiVars>>

NextStorage ==
    \/ \E d \in SaveCollections, failed \in BOOLEAN : StorageSave(d, failed)
    \/ \E f \in StoreFaults : StorageLoad(f)

SpecStorage == InitStore /\ [][NextStorage]_vars

---------------------------------------------------------------------------
(* Status: src/switcher/mod.rs get_current_status, src/git/config.rs get_config *)

\* A second profile with the credentials of ProfW.
ProfSame == Profile(NameW2, <<"u1">>, <<"e1">>, KeyB)

\* The first profile with these credentials, or 0.
FirstMatch(profiles, username, email) ==
    IF \E i \in 1..Len(profiles) :
          profiles[i].username = username /\ profiles[i].email = email
    THEN CHOOSE i \in 1..Len(profiles) :
            /\ profiles[i].username = username /\ profiles[i].email = email
            /\ \A j \in 1..(i - 1) :
                  ~(profiles[j].username = username /\ profiles[j].email = email)
    ELSE 0

\* The last profile with these credentials, or 0.
LastMatch(profiles, username, email) ==
    IF \E i \in 1..Len(profiles) :
          profiles[i].username = username /\ profiles[i].email = email
    THEN CHOOSE i \in 1..Len(profiles) :
            /\ profiles[i].username = username /\ profiles[i].email = email
            /\ \A j \in (i + 1)..Len(profiles) :
                  ~(profiles[j].username = username /\ profiles[j].email = email)
    ELSE 0

\* find_profile_by_credentials that keeps the last match.
find_profile_by_credentials_last(st, username, email) ==
    CHOOSE r \in {
        [store |-> a.store, res |-> a.res,
         opt |-> IF a.res = "Ok" /\ LastMatch(a.out.profiles, username, email) # 0
                 THEN Some(a.out.profiles[LastMatch(a.out.profiles, username, email)])
                 ELSE None]
        : a \in {get_all_profiles(st, "none")} } : TRUE

\* ProfileSwitcher::find_profile_by_credentials: get_all_profiles, then the
\* first profile whose username and email are the ones given.
find_profile_by_credentials(st, username, email) ==
    CHOOSE r \in {
        [store |-> a.store, res |-> a.res,
         opt |-> IF a.res = "Ok" /\ FirstMatch(a.out.profiles, username, email) # 0
                 THEN Some(a.out.profiles[FirstMatch(a.out.profiles, username, email)])
                 ELSE None]
        : a \in {get_all_profiles(st, "none")} } : TRUE

\* match get_current_profile(scope)? { Some((u, e)) => find(u, e)?, None => None }
scope_profile(st, cfg, scope, faults) ==
    CHOOSE r \in {
        IF g.res # "Ok" THEN [store |-> st, res |-> g.res, opt |-> None]
        ELSE IF ~g.some THEN [store |-> st, res |-> "Ok", opt |-> None]
        ELSE find_profile_by_credentials(st, g.name, g.email)
        : g \in {get_current_profile(cfg, scope, faults[scope].name, faults[scope].email)} }
      : TRUE

\* ProfileSwitcher::get_current_status: the global scope, then the local
\* scope when is_git_repository() (repo: ./.git exists).  The store
\* afterwards and the result.
get_current_status(st, cfg, repo, faults) ==
    CHOOSE r \in {
        IF g.res # "Ok"
        THEN [store |-> g.store, res |-> g.res, global |-> None, local |-> None]
        ELSE IF ~repo
        THEN [store |-> g.store, res |-> "Ok", global |-> g.opt, local |-> None]
        ELSE CHOOSE r2 \in {
               IF l.res # "Ok"
               THEN [store |-> l.store, res |-> l.res, global |-> None, local |-> None]
               ELSE [store |-> l.store, res |-> "Ok", global |-> g.opt, local |-> l.opt]
               : l \in {scope_profile(g.store, cfg, "Local", faults)} } : TRUE
        : g \in {scope_profile(st, cfg, "Global", faults)} } : TRUE

\* The identities git can hold at the start: none, one with only a name,
\* one that a profile has, and that one with a space after the name (git
\* keeps such a value quoted and prints it with the space).
GitIdentity(n, e) == [name |-> n, email |-> e]
StatusIdentities ==
    { NoIdentity, GitIdentity(<<"u1">>, Unset), GitIdentity(<<"u1">>, <<"e1">>),
      GitIdentity(<<"u1", Space>>, <<"e1">>), GitIdentity(<<"u2">>, <<"e2">>) }

StatusInitStores ==
    { MissingStore, CorruptStore, EmptyStore, StoreOf(<<ProfW>>), StoreOf(<<ProfW2>>),
      StoreOf(<<ProfW, ProfSame>>), StoreOf(<<ProfSame, ProfW>>) }

\* At most one of the four runs of git fails.
StatusFaults ==
    {NoGetFaults} \cup
    { [NoGetFaults EXCEPT ![sc][key] = f] :
        sc \in Scopes, key \in {"name", "email"}, f \in GetFaults \ {"none"} }

InitStatus ==
    /\ sshFile = NoFile
    /\ sshBak = NoFile
    /\ lastOp = NoOp
    /\ store \in StatusInitStores
    /\ keyFiles = {KeyA, KeyB}
    /\ isRepo \in BOOLEAN
    /\ gitcfg \in [Scopes -> StatusIdentities]
    /\ pc = "idle"
    /\ call = NoCall
    /\ snap = NoSnap
    /\ returned = "none"
    /\ calls = 0
    /\ clock = 1
    /\ mop = NoMop
    /\ status = NoStatus
    /\ procs = NoProcs
    /\ vcall = NoVCall
    /\ tui = NoTui

\* gex status
Status(faults) ==
    /\ OpsLeft
    /\ \E r \in {get_current_status(store, gitcfg, isRepo, faults)} :
          /\ store' = r.store
          /\ status' = [NoStatus EXCEPT !.op = "status", !.faults = faults, !.res = r.res,
                                        !.global = r.global, !.local = r.local]
    /\ clock' = clock + 1
    /\ UNCHANGED <<sshVars, keyFiles, isRepo, gitcfg, switchVars, mop, procs, uiVars>>

\* GitConfigManager::get_config(scope, key)
GetConfig(scope, key, fault) ==
    /\ OpsLeft
    /\ \E run \in {git_config_run(gitcfg, scope, key, fault)} :
          status' = [NoStatus EXCEPT !.op = "get", !.scope = scope, !.key = key,
                                        !.faults = [NoGetFaults EXCEPT ![scope][key] = fault],
                                        !.code = run.code,
                                        !.res = get_config(run).res,
                                        !.some = get_config(run).some,
                                        !.value = get_config(run).value]
    /\ clock' = clock + 1
    /\ UNCHANGED <<sshVars, store, keyFiles, isRepo, gitcfg, switchVars, mop, procs, uiVars>>

NextStatus ==
    \/ \E faults \in StatusFaults : Status(faults)
    \/ \E sc \in Scopes, key \in {"name", "email"}, f \in GetFaults : GetConfig(sc, key, f)

SpecStatus == InitStatus /\ [][NextStatus]_vars

---------------------------------------------------------------------------
(* Two processes that run create_profile on the same store file *)

\* A save that appends to what the file holds now, not to what was loaded.
create_profile_save_merge(st, data, profile) ==
    save(st, touch([DataOf(st) EXCEPT !.profiles = Append(@, profile)]), FALSE)

\* create_profile after its load: push, touch, save.
create_profile_save(st, data, profile) ==
    save(st, touch([data EXCEPT !.profiles = Append(@, profile)]), FALSE)

\* The pairs of different profiles that the two processes create: of
\* different names, or of the same name.
RacePairs ==
    { <<Proc(pq[1]), Proc(pq[2])>> :
        pq \in {x \in StoreProfiles \X StoreProfiles : x[1] # x[2]} }

RaceInitStores == {MissingStore, CorruptStore, EmptyStore, StoreOf(<<ProfW>>)}

InitRace ==
    /\ sshFile = NoFile
    /\ sshBak = NoFile
    /\ lastOp = NoOp
    /\ store \in RaceInitStores
    /\ keyFiles = {KeyA, KeyB}
    /\ isRepo = TRUE
    /\ gitcfg = [sc \in Scopes |-> NoIdentity]
    /\ pc = "idle"
    /\ call = NoCall
    /\ snap = NoSnap
    /\ returned = "none"
    /\ calls = 0
    /\ clock = 1
    /\ mop = NoMop
    /\ status = NoStatus
    /\ procs \in RacePairs
    /\ vcall = NoVCall
    /\ tui = NoTui

\* A step of process i: the file and the process afterwards; time passes.
RaceStep(i, st, proc) ==
    /\ store' = st
    /\ procs' = [procs EXCEPT ![i] = proc]
    /\ clock' = clock + 1
    /\ UNCHANGED <<sshVars, keyFiles, isRepo, gitcfg, switchVars, mop, status, uiVars>>

\* if self.profile_exists(&profile.name)? { return Err(ProfileExists) }
RaceProfileExists(i) ==
    /\ procs[i].pc = "profile_exists"
    /\ \E e \in {profile_exists(store, procs[i].profile.name, "none")} :
          RaceStep(i, e.store,
                   IF e.res # "Ok" THEN [procs[i] EXCEPT !.pc = "done", !.res = e.res]
                   ELSE IF e.out.found
                   THEN [procs[i] EXCEPT !.pc = "done", !.res = "ProfileExists"]
                   ELSE [procs[i] EXCEPT !.pc = "load"])

\* let mut data = self.storage.load()?
RaceLoad(i) ==
    /\ procs[i].pc = "load"
    /\ \E l \in {load(store, "none")} :
          RaceStep(i, l.store,
                   IF l.res # "Ok" THEN [procs[i] EXCEPT !.pc = "done", !.res = l.res]
                   ELSE [procs[i] EXCEPT !.pc = "save", !.data = l.data, !.loaded = clock])

\* data.profiles.push(profile); data.touch(); self.storage.save(&data)?
RaceSave(i) ==
    /\ procs[i].pc = "save"
    /\ \E r \in {create_profile_save(store, procs[i].data, procs[i].profile)} :
          RaceStep(i, r.store, [procs[i] EXCEPT !.pc = "done", !.res = r.res, !.saved = clock])

NextRace ==
    \/ \E i \in 1..2 : RaceProfileExists(i)
    \/ \E i \in 1..2 : RaceLoad(i)
    \/ \E i \in 1..2 : RaceSave(i)

SpecRace == InitRace /\ [][NextRace]_vars

---------------------------------------------------------------------------
(* Validator: src/utils/validator.rs *)

\* The characters of the inputs: a letter, a digit, the hyphen, the
\* underscore, a letter outside ASCII (two bytes of UTF-8), a punctuation
\* mark, and the newline.
Letters == {"a", "Z"}
Digits == {"7"}
Hyphen == "-"
Underscore == "_"
ValidatorChars == Letters \cup Digits \cup {Hyphen, Underscore, "é", "!", NL}

\* char::len_utf8
len_utf8(c) == IF c = "é" THEN 2 ELSE 1

RECURSIVE str_len(_)
\* str::len: the length in bytes.
str_len(s) == IF s = <<>> THEN 0 ELSE len_utf8(Head(s)) + str_len(Tail(s))

\* Regex ^[class]+$ .is_match(s): one character or more, all of the class,
\* up to the end of the text ($ does not match before a last newline).
is_match_all(class, s) == Len(s) >= 1 /\ \A k \in 1..Len(s) : s[k] \in class

\* [a-zA-Z0-9_-] and [a-zA-Z0-9-]
NameClass == Letters \cup Digits \cup {Underscore, Hyphen}
UsernameClass == Letters \cup Digits \cup {Hyphen}

MaxProfileNameLen == 50
MaxUsernameLen == 39

\* validate_profile_name with no limit on the length.
validate_profile_name_unbounded(name) ==
    IF name = <<>> THEN FALSE ELSE is_match_all(NameClass, name)

\* Validator::validate_profile_name
validate_profile_name(name) ==
    IF name = <<>> \/ str_len(name) > MaxProfileNameLen THEN FALSE
    ELSE is_match_all(NameClass, name)

\* validate_username without the check of the first and last character.
validate_username_any_hyphen(username) ==
    IF username = <<>> \/ str_len(username) > MaxUsernameLen THEN FALSE
    ELSE is_match_all(UsernameClass, username)

\* Validator::validate_username
validate_username(username) ==
    IF username = <<>> \/ str_len(username) > MaxUsernameLen THEN FALSE
    ELSE IF username[1] = Hyphen \/ username[Len(username)] = Hyphen THEN FALSE
    ELSE is_match_all(UsernameClass, username)

\* The inputs: at most one character, then a run of one character, then at
\* most one character.
Run(c, n) == [k \in 1..n |-> c]
Edge == {<<>>} \cup {<<c>> : c \in ValidatorChars}
ValidatorInputs ==
    { e[1] \o Run(c, n) \o e[2] : e \in Edge \X Edge, c \in ValidatorChars, n \in 0..MaxRun }

InitValidator ==
    /\ sshFile = NoFile
    /\ sshBak = NoFile
    /\ lastOp = NoOp
    /\ store = EmptyStore
    /\ keyFiles = {}
    /\ isRepo = FALSE
    /\ gitcfg = [sc \in Scopes |-> NoIdentity]
    /\ pc = "idle"
    /\ call = NoCall
    /\ snap = NoSnap
    /\ returned = "none"
    /\ calls = 0
    /\ clock = 1
    /\ mop = NoMop
    /\ status = NoStatus
    /\ procs = NoProcs
    /\ vcall \in {[NoVCall EXCEPT !.input = s] : s \in ValidatorInputs}
    /\ tui = NoTui

\* A call of a Validator function on the input.
ValidatorCall(fn, result) ==
    /\ vcall' = [fn |-> fn, input |-> vcall.input, result |-> result]
    /\ UNCHANGED <<sshVars, envVars, switchVars, mgrVars, tui>>

ValidateProfileName == ValidatorCall("validate_profile_name", validate_profile_name(vcall.input))
ValidateUsername == ValidatorCall("validate_username", validate_username(vcall.input))

NextValidator ==
    \/ ValidateProfileName
    \/ ValidateUsername

SpecValidator == InitValidator /\ [][NextValidator]_vars

---------------------------------------------------------------------------
(* Vocabulary of the claims about the SSH file *)

MarkerLine(name) == <<MarkerPrefix>> \o name
HostAliasLine(name) == <<HostKw, "github.com-">> \o name

IsBlank(line) == \A k \in 1..Len(line) : line[k] \in WhitespaceTokens
IsIndented(line) == Len(line) > 0 /\ line[1] = Indent
IsHostLine(line) == Len(line) > 0 /\ line[1] = HostKw

\* How many of the lines are equal to `line`.
CountLine(lines, line) == Cardinality({k \in 1..Len(lines) : lines[k] = line})
MarkerCount(file, name) == CountLine(Lines(file.content), MarkerLine(name))

\* The six lines of the block of a profile, written out.
BlockLines(prefix, profile) ==
    << <<prefix>> \o profile.name,
       <<HostKw, "github.com-">> \o profile.name,
       <<Indent, "HostName github.com">>,
       <<Indent, "User git">>,
       <<Indent, "IdentityFile ", "~/.ssh/">> \o profile.ssh_key_name,
       <<Indent, "IdentitiesOnly yes">> >>

\* The last n of the lines, and the lines before them.
LastLines(lines, n) == SubSeq(lines, Len(lines) - n + 1, Len(lines))
ButLastLines(lines, n) == SubSeq(lines, 1, Len(lines) - n)

RECURSIVE SelectIdx(_, _, _)
\* The lines whose index is not in `drop`, in order, from index k on.
SelectIdx(lines, drop, k) ==
    IF k > Len(lines) THEN <<>>
    ELSE (IF k \in drop THEN <<>> ELSE <<lines[k]>>) \o SelectIdx(lines, drop, k + 1)

\* The block of the data model that starts at the marker at index i: the
\* marker, the Host line right after it, and the indented lines after that.
HostBlockAt(lines, i) ==
    {i} \cup
    { k \in (i + 1)..Len(lines) :
        /\ IsHostLine(lines[i + 1])
        /\ \A j \in (i + 2)..k : IsIndented(lines[j]) }

\* The lines the merger takes for the block at the marker at index i: the
\* marker, blank lines after it, the first Host line if nothing but blank
\* lines comes before it, and the indented or blank lines after that Host.
MergerRunAt(lines, i) ==
    {i} \cup
    { k \in (i + 1)..Len(lines) :
        \/ \A j \in (i + 1)..k : IsBlank(lines[j])
        \/ \E h \in (i + 1)..k :
              /\ IsHostLine(lines[h])
              /\ \A j \in (i + 1)..(h - 1) : IsBlank(lines[j])
              /\ \A j \in (h + 1)..k : IsIndented(lines[j]) \/ IsBlank(lines[j]) }

MarkersOf(lines, name) == {i \in 1..Len(lines) : lines[i] = MarkerLine(name)}
HostBlocksOf(lines, name) == UNION {HostBlockAt(lines, i) : i \in MarkersOf(lines, name)}
MergerRunsOf(lines, name) == UNION {MergerRunAt(lines, i) : i \in MarkersOf(lines, name)}

UpsertDone == lastOp.op = "upsert" /\ lastOp.res = "Ok"
RemoveDone == lastOp.op = "remove" /\ lastOp.res = "Ok"

---------------------------------------------------------------------------
(* Vocabulary of the claims about switch_profile *)

\* A switch_profile call has returned.
SwitchOver == pc = "idle" /\ calls > 0

\* The profile the call resolved its name to.
P == call.profile

\* The store was read and parsed by the call.
Loaded == store.state = "ok" /\ call.failedAt # "load"
Stored == Loaded /\ FindIndex(store.profiles, call.name) # 0
KeyPresent == P.ssh_key_name \in keyFiles

GitUntouched == gitcfg = snap.git
SshUntouched == sshFile = snap.file /\ sshBak = snap.bak

---------------------------------------------------------------------------
(* Claims C1 to C4: the switcher, under Spec *)

\* C1: switch_profile runs profile lookup, key check, git config, SSH block
\* in this order.  A call past the lookup holds the first stored profile of
\* that name, a call past the key check has its key file, git's config is
\* written only after both, and the SSH file or its backup only after
\* git's config.  A call for a name the loaded store lacks returns
\* ProfileNotFound, one whose key file is missing returns SshKeyNotFound,
\* and in both cases git's config, the SSH file and its backup are as they
\* were when the call began.
C1_SwitchStepOrder ==
    /\ pc \notin {"idle", "get_profile"} =>
          /\ FindIndex(store.profiles, call.name) # 0
          /\ P = store.profiles[FindIndex(store.profiles, call.name)]
    /\ pc \in {"apply_profile", "set_user_name", "set_user_email", "add_or_update_host"} =>
          KeyPresent
    /\ (calls > 0 /\ ~GitUntouched) =>
          /\ Stored /\ KeyPresent
          /\ pc \in {"set_user_email", "add_or_update_host", "idle"}
    /\ (calls > 0 /\ ~SshUntouched) =>
          /\ gitcfg[call.scope] = Identity(P)
          /\ pc = "idle"
    /\ (SwitchOver /\ Loaded /\ ~Stored) => returned = "ProfileNotFound"
    /\ (SwitchOver /\ Stored /\ ~KeyPresent) => returned = "SshKeyNotFound"
    /\ (SwitchOver /\ returned \in {"ProfileNotFound", "SshKeyNotFound"}) =>
          GitUntouched /\ SshUntouched

\* Witness of C1: a call for a stored profile returned SshKeyNotFound while
\* an SSH config file existed and git's config was set.
C1_Witness ==
    /\ SwitchOver /\ Stored /\ ~KeyPresent
    /\ returned = "SshKeyNotFound"
    /\ sshFile.exists
    /\ gitcfg["Global"] = OldIdentity

\* C2 as stated: for a stored profile, a Local switch outside a repository
\* returns NotGitRepo and leaves the SSH file and git's config alone.
C2_AsStated ==
    (SwitchOver /\ Stored /\ call.scope = "Local" /\ ~isRepo) =>
        /\ returned = "NotGitRepo"
        /\ SshUntouched /\ GitUntouched

\* C2, amended: for a stored profile whose SSH key file exists, a Local
\* switch outside a repository returns NotGitRepo and leaves the SSH file,
\* its backup and git's config alone.
C2_NotARepository ==
    (SwitchOver /\ Stored /\ KeyPresent /\ call.scope = "Local" /\ ~isRepo) =>
        /\ returned = "NotGitRepo"
        /\ SshUntouched /\ GitUntouched

\* Witness of C2: such a call returned NotGitRepo.
C2_Witness ==
    /\ SwitchOver /\ Stored /\ KeyPresent /\ call.scope = "Local" /\ ~isRepo
    /\ returned = "NotGitRepo"

\* C3: when switch_profile returns Ok, the identity of the requested scope
\* is the profile's (username, email), the other scope's identity is what
\* it was, and the SSH file holds exactly one marker line of the profile's
\* name, in a block at its end whose IdentityFile is the key's path; and at
\* no point of a call is the SSH file or its backup changed while the
\* scope's identity is not yet the profile's.
C3_SwitchSuccess ==
    /\ (SwitchOver /\ returned = "Ok") =>
          /\ P = store.profiles[FindIndex(store.profiles, call.name)]
          /\ gitcfg[call.scope] = Identity(P)
          /\ gitcfg[OtherScope(call.scope)] = snap.git[OtherScope(call.scope)]
          /\ sshFile.exists
          /\ MarkerCount(sshFile, P.name) = 1
          /\ LastLines(Lines(sshFile.content), 6) = BlockLines(MarkerPrefix, P)
    /\ (calls > 0 /\ ~SshUntouched) => gitcfg[call.scope] = Identity(P)

\* Witness of C3: a Local switch returned Ok, replaced a block the file
\* held for the name, and the Global identity is still the old one.
C3_Witness ==
    /\ SwitchOver /\ returned = "Ok" /\ call.scope = "Local"
    /\ gitcfg["Global"] = OldIdentity
    /\ MarkerCount(snap.file, P.name) = 1
    /\ sshFile # snap.file

\* C4: nothing is rolled back.  When setting user.email fails after
\* user.name was set, the call returns git's error, user.name keeps the
\* profile's username and user.email is what it was; when the SSH step
\* fails after git's config was applied, the call returns the SSH error and
\* the scope's identity stays the profile's.
C4_NoRollback ==
    /\ (SwitchOver /\ call.failedAt = "set_user_email") =>
          /\ returned \in GitOutcomes \ {"Ok"}
          /\ gitcfg[call.scope].name = P.username
          /\ gitcfg[call.scope].email = snap.git[call.scope].email
    /\ (SwitchOver /\ call.failedAt = "add_or_update_host") =>
          /\ returned = "PermissionDenied"
          /\ gitcfg[call.scope] = Identity(P)

\* Witness of C4: setting user.email failed and user.name has changed.
C4_Witness ==
    /\ SwitchOver /\ call.failedAt = "set_user_email"
    /\ gitcfg[call.scope].name # snap.git[call.scope].name
    /\ gitcfg[call.scope].email # P.email

---------------------------------------------------------------------------
(* Claims C5 to C10: the SSH merger, under SpecSsh *)

PreLines == Lines(lastOp.pre.content)
NowLines == Lines(sshFile.content)
BlankLine == <<>>

\* lines holds run as consecutive lines.
ContainsRun(lines, run) ==
    \E k \in 0..(Len(lines) - Len(run)) : SubSeq(lines, k + 1, k + Len(run)) = run

\* C5 as stated: after any upsert or remove, from any initial content, the
\* file holds at most one marker line per profile name.
C5_AsStated ==
    lastOp.op # "none" => \A n \in Names : MarkerCount(sshFile, n) <= 1

\* C5, amended: a successful upsert(P) leaves exactly one marker line of
\* P.name and a successful remove(name) none, whatever the file held; no
\* operation changes the number of marker lines of any other name, and a
\* failed operation changes none.
C5_MarkerLines ==
    lastOp.op # "none" =>
        \A n \in Names :
            IF lastOp.res = "Ok" /\ n = lastOp.name
            THEN MarkerCount(sshFile, n) = (IF lastOp.op = "upsert" THEN 1 ELSE 0)
            ELSE MarkerCount(sshFile, n) = MarkerCount(lastOp.pre, n)

\* Witness of C5: an upsert found two marker lines of its name and left one.
C5_Witness ==
    /\ UpsertDone
    /\ MarkerCount(lastOp.pre, lastOp.name) = 2
    /\ MarkerCount(sshFile, lastOp.name) = 1

\* C6: a successful upsert(P) that directly follows a successful upsert(P)
\* leaves the file as it found it, with exactly one marker line of P.name.
C6_UpsertIdempotent ==
    [][ ( /\ UpsertDone
          /\ lastOp'.op = "upsert" /\ lastOp'.res = "Ok"
          /\ lastOp'.profile = lastOp.profile )
        => ( /\ sshFile' = sshFile
             /\ MarkerCount(sshFile', lastOp.name) = 1 ) ]_vars

\* Witness of C6: an upsert reproduced a file that holds other lines and
\* the block.
C6_Witness ==
    /\ UpsertDone
    /\ lastOp.pre = sshFile
    /\ Len(NowLines) > 6

\* C7 as stated: after upsert(P) the file is the lines that were outside
\* P's block (the marker, the Host line after it, its indented lines), in
\* order, then at most one blank line, then the block of P.
C7_AsStated ==
    UpsertDone =>
        \E sep \in {<<>>, <<BlankLine>>} :
            NowLines = SelectIdx(PreLines, HostBlocksOf(PreLines, lastOp.name), 1)
                       \o sep \o BlockLines(MarkerPrefix, lastOp.profile)

\* C7, amended: after upsert(P) the file is the lines that were outside
\* the run the merger takes for P's block (the marker, blank lines after
\* it, the first Host line if only blank lines come before it, and the
\* indented or blank lines after that Host line), in order, then at most
\* one blank line, then the block of P.
C7_UpsertPreserves ==
    UpsertDone =>
        \E sep \in {<<>>, <<BlankLine>>} :
            NowLines = SelectIdx(PreLines, MergerRunsOf(PreLines, lastOp.name), 1)
                       \o sep \o BlockLines(MarkerPrefix, lastOp.profile)

\* Witness of C7: an upsert dropped a block and kept two other lines.
C7_Witness ==
    /\ UpsertDone
    /\ MergerRunsOf(PreLines, lastOp.name) # {}
    /\ Len(SelectIdx(PreLines, MergerRunsOf(PreLines, lastOp.name), 1)) >= 2

\* A successful remove(P.name) directly follows a successful upsert(P).
UpsertThenRemove ==
    /\ UpsertDone
    /\ lastOp'.op = "remove" /\ lastOp'.res = "Ok"
    /\ lastOp'.name = lastOp.name

\* The block of every other name that the file held before the upsert is
\* among `after`, line for line.
OtherBlocksKept(after) ==
    \A q \in Names \ {lastOp.name} :
        \A i \in MarkersOf(PreLines, q) :
            ContainsRun(after,
                        SelectIdx(PreLines, (1..Len(PreLines)) \ HostBlockAt(PreLines, i), 1))

\* Before the upsert, every Host line with the alias of the name was the
\* Host line of a block marked for that name.
AliasOnlyInBlock ==
    \A h \in 1..Len(PreLines) :
        PreLines[h] = HostAliasLine(lastOp.name) => h \in HostBlocksOf(PreLines, lastOp.name)

\* C8 as stated: after upsert(P); remove(P.name) the file holds no marker
\* line of P.name and no Host line with P's alias, and the block of every
\* other name is kept.
C8_AsStated ==
    [][ UpsertThenRemove =>
          /\ MarkerCount(sshFile', lastOp.name) = 0
          /\ CountLine(Lines(sshFile'.content), HostAliasLine(lastOp.name)) = 0
          /\ OtherBlocksKept(Lines(sshFile'.content)) ]_vars

\* C8, amended: after upsert(P); remove(P.name) the file holds no marker
\* line of P.name and the block of every other name is kept; it holds no
\* Host line with P's alias if, before the upsert, every such line was the
\* Host line of a block marked for P.name.
C8_UpsertRemove ==
    [][ UpsertThenRemove =>
          /\ MarkerCount(sshFile', lastOp.name) = 0
          /\ AliasOnlyInBlock =>
                CountLine(Lines(sshFile'.content), HostAliasLine(lastOp.name)) = 0
          /\ OtherBlocksKept(Lines(sshFile'.content)) ]_vars

\* Witness of C8: a remove found the block of its name at the end of a
\* file that also holds a marker line of the other name, and removed it.
C8_Witness ==
    /\ RemoveDone
    /\ Len(PreLines) > 6
    /\ ContainsRun(PreLines, BlockLines(MarkerPrefix, Profile(lastOp.name, "", "", KeyA)))
    /\ \E q \in Names \ {lastOp.name} : MarkerCount(sshFile, q) = 1
    /\ MarkerCount(sshFile, lastOp.name) = 0

\* C9: remove(name) on a missing file returns Ok and creates no file; on a
\* file without a marker line of name it returns Ok, when no I/O call
\* fails, and the file holds the same lines in the same order.
C9_RemoveNoOp ==
    lastOp.op = "remove" =>
        /\ ~lastOp.pre.exists => (lastOp.res = "Ok" /\ ~sshFile.exists)
        /\ ( /\ lastOp.pre.exists
             /\ MarkerCount(lastOp.pre, lastOp.name) = 0
             /\ lastOp.fault = "none" )
           => (lastOp.res = "Ok" /\ sshFile.exists /\ NowLines = PreLines)

\* Witness of C9: a remove found two or more lines, none the marker.
C9_Witness ==
    /\ RemoveDone
    /\ lastOp.pre.exists
    /\ MarkerCount(lastOp.pre, lastOp.name) = 0
    /\ Len(PreLines) >= 2

---------------------------------------------------------------------------
(* Claim C11: the backup of the SSH file, under SpecSsh *)

\* The last operation wrote the file, or failed at the write.  A remove of
\* a missing file returns before any write.
SshWrote == lastOp.res = "Ok" /\ (lastOp.op = "upsert" \/ lastOp.pre.exists)
SshFailedAtWrite == lastOp.res # "Ok" /\ lastOp.fault = "write"

\* C11: after an upsert or remove that wrote the SSH file or failed at the
\* write, the backup exists and its content is the content the file had
\* right before the operation (empty when the upsert had to create the
\* file), whatever backup there was before.
C11_BackupFirst ==
    (lastOp.op \in {"upsert", "remove"} /\ (SshWrote \/ SshFailedAtWrite)) =>
        sshBak = FileOf(lastOp.pre.content)

\* Witness of C11: an upsert found a file that ends with the block an
\* earlier upsert of w2 wrote, so a backup of an older content existed; the
\* backup now holds the content the last upsert found and the file differs.
C11_Witness ==
    /\ lastOp.op = "upsert" /\ SshWrote /\ lastOp.pre.exists
    /\ Len(PreLines) >= 7
    /\ LastLines(PreLines, 6) = BlockLines(MarkerPrefix, ProfW2)
    /\ sshBak = FileOf(lastOp.pre.content)
    /\ sshBak.content # sshFile.content

---------------------------------------------------------------------------
(* C12: delete and the host block *)

---------------------------------------------------------------------------
(* C13: unique names *)

\* C13 as stated: whatever create, update and delete calls were made, no
\* two profiles of the persisted collection have the same name.
\* update_profile replaces the profile found under `name` by updated_profile
\* and never looks at updated_profile.name.
C13_UniqueNames == store.state = "ok" => UniqueNames(store.profiles)

---------------------------------------------------------------------------
(* C14: the failures ProfileExists and ProfileNotFound *)

\* The last manager call met no I/O fault and found a collection it could
\* parse; `name` was in it, or not.
CallOnCollection(ops) == mop.op \in ops /\ mop.fault = "none" /\ mop.pre.state = "ok"
NameWasStored == FindIndex(mop.pre.profiles, mop.name) # 0

\* C14: on a persisted collection, create of a name that is in it returns
\* ProfileExists, update and delete of a name that is not in it return
\* ProfileNotFound, and after each of these failures the store file is what
\* it was: same profiles in the same order, same last_modified, same
\* version.  (When there is no store file yet, update and delete also
\* return ProfileNotFound, after load has written the empty collection.)
C14_FailuresChangeNothing ==
    /\ (CallOnCollection({"create"}) /\ NameWasStored) =>
           mop.res = "ProfileExists" /\ store = mop.pre
    /\ (CallOnCollection({"update", "delete"}) /\ ~NameWasStored) =>
           mop.res = "ProfileNotFound" /\ store = mop.pre
    /\ (mop.res \in {"ProfileExists", "ProfileNotFound"} /\ mop.pre.state = "ok") =>
           store = mop.pre
    /\ (mop.op \in {"update", "delete"} /\ mop.fault = "none" /\ mop.pre.state = "missing") =>
           mop.res = "ProfileNotFound" /\ store.state = "ok" /\ store.profiles = <<>>

\* Witness of C14: a create of a profile named w with other content than the
\* stored w, on a collection of two profiles, failed with ProfileExists and
\* the store is what it was.
C14_Witness ==
    /\ CallOnCollection({"create"}) /\ NameWasStored
    /\ Len(mop.pre.profiles) = 2
    /\ \A k \in 1..2 : mop.pre.profiles[k] # mop.profile
    /\ mop.res = "ProfileExists"
    /\ store = mop.pre

---------------------------------------------------------------------------
(* C15: insertion order *)

\* The last manager call returned Ok and wrote the collection.
Mutated(op) == mop.op = op /\ mop.res = "Ok"
\* Where `name` was in the collection the call found (0 when the call had
\* to create the store file first).
WasAt == FindIndex(mop.pre.profiles, mop.name)

\* C15: after a successful create(p) the profiles are those before with p
\* appended, and get_profile(p.name) finds p; after a successful
\* update(name, q) the profiles are those before with q at the place of the
\* first profile named name; after a successful delete(name) they are those
\* before without that one profile, in the same order.
C15_InsertionOrder ==
    /\ Mutated("create") =>
          /\ store.profiles = Append(mop.pre.profiles, mop.profile)
          /\ get_profile(store, mop.name, "none").found
          /\ get_profile(store, mop.name, "none").profile = mop.profile
    /\ Mutated("update") =>
          /\ WasAt # 0
          /\ Len(store.profiles) = Len(mop.pre.profiles)
          /\ \A k \in 1..Len(store.profiles) :
                store.profiles[k] = IF k = WasAt THEN mop.profile ELSE mop.pre.profiles[k]
    /\ Mutated("delete") =>
          /\ WasAt # 0
          /\ Len(store.profiles) = Len(mop.pre.profiles) - 1
          /\ \A k \in 1..Len(store.profiles) :
                store.profiles[k] = mop.pre.profiles[IF k < WasAt THEN k ELSE k + 1]

\* Witness of C15: an update of the first of two profiles, by a profile that
\* differs from it, left the new profile first and the other one second.
C15_Witness ==
    /\ Mutated("update")
    /\ Len(mop.pre.profiles) = 2 /\ WasAt = 1
    /\ mop.profile # mop.pre.profiles[1]
    /\ store.profiles = <<mop.profile, mop.pre.profiles[2]>>

---------------------------------------------------------------------------
(* C16: the storage round trip, under SpecStorage *)

\* A load that met no I/O fault, after a save that succeeded.
LoadedAfterSave == mop.op = "load" /\ mop.fault = "none" /\ mop.saved.some

\* C16: a load that follows a successful save(X) returns Ok and a
\* collection equal to X: same version, same profiles in the same order,
\* same last_modified.  It holds for every X, with unique names or not.
C16_RoundTrip ==
    LoadedAfterSave => mop.res = "Ok" /\ mop.data = mop.saved.data

\* Witness of C16: the collection saved and loaded has two profiles of
\* different names, one with a quote, a backslash, a newline and a tab in
\* its fields, and a version with a quote in it.
C16_Witness ==
    /\ LoadedAfterSave
    /\ mop.saved.data.profiles = <<ProfW2, ProfQ>>
    /\ mop.saved.data.version = <<"2", Quote>>
    /\ mop.res = "Ok"
    /\ mop.data = mop.saved.data

---------------------------------------------------------------------------
(* C17: a store file that does not parse *)

ManagerOps == {"create", "get", "get_all", "update", "delete", "exists"}
SwitchReturned == returned \notin {"none", "running"}

\* C17: when the store file exists and does not parse, every manager call
\* that meets no I/O fault returns ConfigCorrupted, a switch returns
\* ConfigCorrupted from its load, and no step of any of them changes the
\* file.
C17_CorruptStays ==
    /\ []((mop.op \in ManagerOps /\ mop.pre.state = "corrupt" /\ mop.fault = "none") =>
             mop.res = "ConfigCorrupted")
    /\ []((SwitchReturned /\ store.state = "corrupt") =>
             returned = "ConfigCorrupted" /\ call.failedAt = "load")
    /\ [][store.state = "corrupt" => store' = store]_vars

\* Witness of C17: on a store file that does not parse, a delete returned
\* ConfigCorrupted, then a switch did, and the file still does not parse.
C17_Witness ==
    /\ mop.op = "delete" /\ mop.pre.state = "corrupt" /\ mop.res = "ConfigCorrupted"
    /\ returned = "ConfigCorrupted" /\ call.failedAt = "load"
    /\ store = CorruptStore

---------------------------------------------------------------------------
(* C18: status, under SpecStatus *)

StatusReturned == status.op = "status" /\ status.res = "Ok"
ScopeResult(sc) == IF sc = "Global" THEN status.global ELSE status.local
IdentitySet(sc) == gitcfg[sc].name # Unset /\ gitcfg[sc].email # Unset

\* Some(the first stored profile with these credentials), or None.
FirstWith(username, email) ==
    IF store.state = "ok" /\ FirstMatch(store.profiles, username, email) # 0
    THEN Some(store.profiles[FirstMatch(store.profiles, username, email)])
    ELSE None

GitAnswered(sc) ==
    /\ IdentitySet(sc)
    /\ status.faults[sc].name = "none" /\ status.faults[sc].email = "none"

---------------------------------------------------------------------------
(* C19: what get_config turns into None *)

\* C19 as stated: get_config returns None only when git reported that the
\* key is not set (exit code 1 of `git config <scope> <key>`); a run that
\* could not start or that exited with another non-zero code is an error.
C19_NoneOnlyWhenUnset ==
    status.op = "get" =>
        /\ (status.res = "Ok" /\ ~status.some) => status.code = 1
        /\ status.faults[status.scope][status.key] # "none" => status.res # "Ok"

---------------------------------------------------------------------------
(* C20: two racing create calls, under SpecRace *)

BothCreated == \A i \in 1..2 : procs[i].pc = "done" /\ procs[i].res = "Ok"
IsStored(profile) == \E k \in 1..Len(store.profiles) : store.profiles[k] = profile
\* The process that saved last, and the other one.
LastWriter == IF procs[1].saved > procs[2].saved THEN 1 ELSE 2
FirstWriter == 3 - LastWriter

\* C20: when both create calls returned Ok, the store file holds what the
\* last writer loaded with its profile appended, and it holds the profile
\* of the first writer exactly if the last writer loaded after the first
\* writer saved; otherwise that profile is lost.
C20_LastWriterWins ==
    BothCreated =>
        /\ store.profiles =
              Append(procs[LastWriter].data.profiles, procs[LastWriter].profile)
        /\ IsStored(procs[FirstWriter].profile) <=>
              procs[FirstWriter].saved < procs[LastWriter].loaded

\* Witness of C20: both calls returned Ok for profiles of different names,
\* and the file holds one profile more than the last writer loaded: the
\* profile of the last writer, not that of the first.
C20_Witness ==
    /\ BothCreated
    /\ procs[1].profile.name # procs[2].profile.name
    /\ Len(store.profiles) = Len(procs[FirstWriter].data.profiles) + 1
    /\ IsStored(procs[LastWriter].profile)
    /\ ~IsStored(procs[FirstWriter].profile)

---------------------------------------------------------------------------
(* C21, C22: the validators, under SpecValidator *)

\* How many characters of s are in the class.
AllIn(class, s) == \A k \in 1..Len(s) : s[k] \in class

\* C21: validate_profile_name(s) is true exactly if s has 1 to 50
\* characters, all of them letters, digits, underscores or hyphens of ASCII.
C21_ProfileName ==
    vcall.fn = "validate_profile_name" =>
        (vcall.result <=>
            (Len(vcall.input) \in 1..50 /\ AllIn(NameClass, vcall.input)))

\* Witness of C21: a name of 50 characters, with an underscore and a hyphen
\* in it, was accepted.
C21_Witness ==
    /\ vcall.fn = "validate_profile_name"
    /\ Len(vcall.input) = 50
    /\ vcall.input[1] = Underscore /\ vcall.input[50] = Hyphen
    /\ vcall.result

\* C22: validate_username(s) is true exactly if s has 1 to 39 characters,
\* all of them letters, digits or hyphens of ASCII, and neither the first
\* nor the last is a hyphen.
C22_Username ==
    vcall.fn = "validate_username" =>
        (vcall.result <=>
            /\ Len(vcall.input) \in 1..39
            /\ AllIn(UsernameClass, vcall.input)
            /\ vcall.input[1] # Hyphen
            /\ vcall.input[Len(vcall.input)] # Hyphen)

\* Witness of C22: a username of 39 characters with hyphens inside was
\* accepted.
C22_Witness ==
    /\ vcall.fn = "validate_username"
    /\ Len(vcall.input) = 39
    /\ vcall.input[2] = Hyphen
    /\ vcall.result

---------------------------------------------------------------------------
(* C23: the scan that takes out a block, under SpecSsh *)

IsComment(line) == TrimStartsWithHash(line)
MergerDone == lastOp.op \in {"upsert", "remove"} /\ lastOp.res = "Ok" /\ lastOp.pre.exists

\* The run of C23 as stated, for the marker at index i: the scan ends at
\* the first comment line after the marker or at the second Host line
\* after it; the run is the marker, the first Host line before that end,
\* and the indented or blank lines before that end.
StatedEnd(lines, i) ==
    LET ends == { k \in (i + 1)..Len(lines) :
                     \/ IsComment(lines[k])
                     \/ /\ IsHostLine(lines[k])
                        /\ \E h \in (i + 1)..(k - 1) : IsHostLine(lines[h]) }
    IN  IF ends = {} THEN Len(lines) + 1
        ELSE CHOOSE k \in ends : \A j \in ends : k <= j
StatedRunAt(lines, i) ==
    {i} \cup
    { k \in (i + 1)..(StatedEnd(lines, i) - 1) :
        IsHostLine(lines[k]) \/ IsIndented(lines[k]) \/ IsBlank(lines[k]) }
StatedRunsOf(lines, name) == UNION {StatedRunAt(lines, i) : i \in MarkersOf(lines, name)}

\* The lines an upsert or remove kept of the file it found: all the lines
\* of the file after a remove, those before the appended block and its
\* separating blank line after an upsert.
KeptIs(kept) ==
    IF lastOp.op = "remove" THEN NowLines = kept
    ELSE \E sep \in {<<>>, <<BlankLine>>} :
            NowLines = kept \o sep \o BlockLines(MarkerPrefix, lastOp.profile)

\* C23 as stated: the lines kept are those outside the stated runs.
C23_AsStated ==
    MergerDone => KeptIs(SelectIdx(PreLines, StatedRunsOf(PreLines, lastOp.name), 1))

\* Where the scan entered after the marker at index i-1 ends.
ScanEnd(lines, i) ==
    IF lastOp.op = "remove" THEN remove_skip_block(lines, i, FALSE)
    ELSE update_skip_block(lines, i, FALSE)
LastOf(run) == CHOOSE m \in run : \A k \in run : k <= m

\* C23, amended: on the marker line of the name the scan of upsert and of
\* remove takes out that marker, the blank lines after it, the first Host
\* line if only blank lines come before it, and the indented or blank lines
\* after that Host line.  It ends at the first line that is none of these:
\* a comment, another Host line, an indented line with no Host line before
\* it, or any other line that is not blank, or the end of the file.  The
\* lines kept are, in order, all the lines outside these runs.
C23_ScanRun ==
    MergerDone =>
        /\ \A i \in MarkersOf(PreLines, lastOp.name) :
              /\ ScanEnd(PreLines, i + 1) = LastOf(MergerRunAt(PreLines, i)) + 1
              /\ MergerRunAt(PreLines, i) = i..LastOf(MergerRunAt(PreLines, i))
              /\ ScanEnd(PreLines, i + 1) <= Len(PreLines) =>
                    ~IsBlank(PreLines[ScanEnd(PreLines, i + 1)])
        /\ KeptIs(SelectIdx(PreLines, MergerRunsOf(PreLines, lastOp.name), 1))

\* Witness of C23: a remove found the marker, a Host line and a line that
\* is neither indented nor a comment nor a Host line; it kept that line.
C23_Witness ==
    /\ RemoveDone
    /\ PreLines = <<MarkerLine(lastOp.name), HostAliasLine(NameW), <<"Include x">> >>
    /\ NowLines = << <<"Include x">> >>

---------------------------------------------------------------------------
(* C24: where upsert puts the block, under SpecSsh *)

\* The lines an upsert retains of the file it found.
Retained == SelectIdx(PreLines, MergerRunsOf(PreLines, lastOp.name), 1)
EndsInBlankLine(lines) == lines # <<>> /\ IsBlank(lines[Len(lines)])

\* C24 as stated: after upsert(P) the file is the retained lines, then one
\* blank line exactly if there are retained lines and the last of them is
\* not blank, then the block of P; on an empty or missing file it is the
\* block alone.
C24_BlockAtEnd ==
    UpsertDone =>
        NowLines = Retained
                   \o (IF Retained # <<>> /\ ~EndsInBlankLine(Retained)
                       THEN <<BlankLine>> ELSE <<>>)
                   \o BlockLines(MarkerPrefix, lastOp.profile)

---------------------------------------------------------------------------
(* C25: the upsert/remove cycle, under SpecSsh *)

\* The content after upsert(P); remove(P.name) on `content`.
Cycle(content, profile) ==
    remove_host_from_content(update_config_content(content, profile), profile.name)

\* C25: when a successful remove(P.name) directly follows a successful
\* upsert(P) on a file without a marker line of P.name, the file holds the
\* lines the upsert found, in order, and at most one more blank line after
\* them; and from any file without such a marker, the content after one
\* cycle is the content after two cycles.
C25_CycleFixedPoint ==
    /\ [][ (UpsertThenRemove /\ MarkerCount(lastOp.pre, lastOp.name) = 0) =>
              Lines(sshFile'.content) \in {PreLines, PreLines \o <<BlankLine>>} ]_vars
    /\ [](\A p \in Profiles :
             MarkerCount(sshFile, p.name) = 0 =>
                 /\ Lines(Cycle(sshFile.content, p)) \in
                        {NowLines, NowLines \o <<BlankLine>>}
                 /\ Cycle(Cycle(sshFile.content, p), p) = Cycle(sshFile.content, p))

\* Witness of C25: a remove took the block that an upsert had put after the
\* line "Include x" and a separating blank line; the file is now that line
\* and the blank line, and another cycle leaves it so.
C25_Witness ==
    /\ RemoveDone
    /\ PreLines = << <<"Include x">>, BlankLine >> \o BlockLines(MarkerPrefix, ProfW)
    /\ NowLines = << <<"Include x">>, BlankLine >>
    /\ Cycle(sshFile.content, ProfW) = sshFile.content

---------------------------------------------------------------------------
(* C26: two processes creating the same name, under SpecRace *)

\* C26: whatever the interleaving of the steps of two create calls, the
\* store file never holds two profiles of the same name.
C26_UniqueUnderRace ==
    \A i \in 1..2 :
        store.state = "ok" =>
            Cardinality({k \in 1..Len(store.profiles) :
                            store.profiles[k].name = procs[i].profile.name}) <= 1

---------------------------------------------------------------------------
(* C27: which error switch_profile reports, under Spec *)

OutsideRepo == call.scope = "Local" /\ ~isRepo

\* C27: a call that read the store returns ProfileNotFound when the name is
\* not stored, whatever the key files and the repository; else
\* SshKeyNotFound when the key file is absent, also for scope Local outside
\* a repository; else NotGitRepo for scope Local outside a repository.  A
\* call that failed in the SSH step met none of the three conditions and
\* had set git's config.
C27_EarliestFailure ==
    (SwitchOver /\ Loaded) =>
        /\ ~Stored => returned = "ProfileNotFound" /\ call.failedAt = "get_profile"
        /\ (Stored /\ ~KeyPresent) =>
              returned = "SshKeyNotFound" /\ call.failedAt = "validate_ssh_key"
        /\ (Stored /\ KeyPresent /\ OutsideRepo) =>
              returned = "NotGitRepo" /\ call.failedAt = "apply_profile"
        /\ call.failedAt = "add_or_update_host" =>
              /\ Stored /\ KeyPresent /\ ~OutsideRepo
              /\ returned \notin {"Ok", "ProfileNotFound", "SshKeyNotFound", "NotGitRepo"}
              /\ gitcfg[call.scope] = Identity(P)

\* Witness of C27: a Local switch of a stored profile whose key file is
\* absent, outside a repository, returned SshKeyNotFound.
C27_Witness ==
    /\ SwitchOver /\ Stored /\ ~KeyPresent /\ OutsideRepo
    /\ returned = "SshKeyNotFound"
    /\ call.failedAt = "validate_ssh_key"

---------------------------------------------------------------------------
(* The read calls, status and switch_profile on one store: any sequence of *)
(* get, get_all, exists, status and switch calls, I/O faults included       *)

\* The stores these calls can find: those of the manager, and two in which
\* a second profile has the credentials of w.
UseInitStores ==
    ManagerInitStores \cup {StoreOf(<<ProfW, ProfSame>>), StoreOf(<<ProfSame, ProfW>>)}

InitUse ==
    /\ sshFile \in ManagerInitFiles
    /\ sshBak = NoFile
    /\ lastOp = NoOp
    /\ store \in UseInitStores
    /\ keyFiles \in {{KeyA}, {KeyA, KeyB}}
    /\ isRepo \in BOOLEAN
    /\ gitcfg \in {[sc \in Scopes |-> NoIdentity], [sc \in Scopes |-> OldIdentity]}
    /\ pc = "idle"
    /\ call = NoCall
    /\ snap = NoSnap
    /\ returned = "none"
    /\ calls = 0
    /\ clock = 1
    /\ mop = NoMop
    /\ status = NoStatus
    /\ procs = NoProcs
    /\ vcall = NoVCall
    /\ tui = NoTui

\* status, called when no switch is under way.
UseStatus(faults) == pc = "idle" /\ Status(faults)

NextUse ==
    \/ \E n \in Names, f \in StoreFaults : GetProfile(n, f)
    \/ \E f \in StoreFaults : GetAllProfiles(f)
    \/ \E n \in Names, f \in StoreFaults : ProfileExists(n, f)
    \/ \E faults \in StatusFaults : UseStatus(faults)
    \/ OpsLeft /\ \E n \in Names, sc \in Scopes : SwitchCall(n, sc)
    \/ \E f \in StoreFaults : SwitchGetProfile(f)
    \/ SwitchValidateKey
    \/ ApplyCheckRepo
    \/ \E o \in GitOutcomes : ApplySetName(o)
    \/ \E o \in GitOutcomes : ApplySetEmail(o)
    \/ \E f \in SshFaults : SwitchUpdateSsh(f)

SpecUse == InitUse /\ [][NextUse]_vars

---------------------------------------------------------------------------
(* C28: status after a successful switch, under SpecUse *)

\* The last switch_profile call returned Ok, and status is called next, no
\* run of git failing.
StatusAfterSwitch ==
    /\ SwitchOver /\ returned = "Ok"
    /\ status'.op = "status" /\ status'.faults = NoGetFaults
    /\ clock' = clock + 1 /\ mop' = mop

SamePair(p, q) == p.username = q.username /\ p.email = q.email

\* The index of P in the store, and whether a profile before it has its
\* username and email.
IndexOfP == FindIndex(store.profiles, call.name)
EarlierSamePair == \E k \in 1..(IndexOfP - 1) : SamePair(store.profiles[k], P)

\* What the status call returned for the scope of the switch.
StatusOfScope == IF call.scope = "Global" THEN status'.global ELSE status'.local

\* C28: a status call that follows a successful switch_profile(P.name,
\* scope), git's identity and the store being as the switch left them,
\* returns Ok and, for that scope, Some profile with the username and
\* email of P; that profile is P exactly if no profile stored before P has
\* the same username and email.
C28_StatusAfterSwitch ==
    [][ StatusAfterSwitch =>
          /\ status'.res = "Ok"
          /\ StatusOfScope.some
          /\ SamePair(StatusOfScope.profile, P)
          /\ (StatusOfScope.profile = P) <=> ~EarlierSamePair ]_vars

---------------------------------------------------------------------------
(* C29: what the read calls, status and switch do to the store, under SpecUse *)

\* The empty collection that a load writes when the file is missing.
CreatedNow == store'.state = "ok" /\ DataOf(store') = StorageData_new

\* C29: no step of get, get_all, exists, status or switch_profile, failed
\* or not, changes a store file that exists: a collection keeps its
\* profiles, their order, its version and last_modified, and a file that
\* does not parse stays as it is.  A missing file stays missing or becomes
\* the empty collection of this instant.
C29_ReadsKeepStore ==
    [][ /\ store.state # "missing" => store' = store
        /\ store.state = "missing" => (store' = store \/ CreatedNow) ]_vars

\* Witness of C29: a switch that returned Ok and a status call after it,
\* on a collection of two profiles that is as it was written at instant 0.
C29_Witness ==
    /\ SwitchOver /\ returned = "Ok"
    /\ status.op = "status" /\ status.res = "Ok"
    /\ store = StoreOf(<<ProfW, ProfW2>>)

---------------------------------------------------------------------------
(* The interactive menu: src/tui/app.rs *)

AppStates == {"MainMenu", "ListProfiles", "SwitchProfile", "Status", "Message", "ConfirmSwitch"}

\* The keys event::read() can deliver: those some handler matches, and "x"
\* for any other.
Keys == {"Up", "Down", "Enter", "Esc", "CtrlC", "1", "2", "3", "4", "q",
         "g", "G", "l", "L", "y", "Y", "n", "N", "x"}

\* self.state = <a state without fields>
SetState(t, state) ==
    [t EXCEPT !.state = state, !.profile_index = 0, !.scope = "Global", !.is_error = FALSE]

\* self.state = AppState::Message { text, is_error }
Message(t, is_error) == [SetState(t, "Message") EXCEPT !.is_error = is_error]

\* self.state = AppState::ConfirmSwitch { profile_index, scope }
ConfirmSwitch(t, index, scope) ==
    [SetState(t, "ConfirmSwitch") EXCEPT !.profile_index = index, !.scope = scope]

\* self.state = AppState::MainMenu; self.list_state.select(Some(self.selected_menu_item))
BackToMainMenu(t) == [SetState(t, "MainMenu") EXCEPT !.selected = t.selected_menu_item]

\* ProfileSwitcher::switch_profile(profile_name, scope), from call to
\* return: the store, git's config, the SSH file and its backup afterwards,
\* the result, and the profile the name was resolved to.
switch_profile(st, keys, repo, cfg, file, bak, name, scope, sf) ==
    CHOOSE r \in {
        IF g.res # "Ok" \/ ~g.found
        THEN [store |-> g.store, gitcfg |-> cfg, file |-> file, bak |-> bak,
              res |-> IF g.res # "Ok" THEN g.res ELSE "ProfileNotFound", profile |-> NoProfile]
        ELSE IF ~validate_ssh_key(g.profile.ssh_key_name, keys)
        THEN [store |-> g.store, gitcfg |-> cfg, file |-> file, bak |-> bak,
              res |-> "SshKeyNotFound", profile |-> g.profile]
        ELSE IF scope = "Local" /\ ~repo
        THEN [store |-> g.store, gitcfg |-> cfg, file |-> file, bak |-> bak,
              res |-> "NotGitRepo", profile |-> g.profile]
        ELSE IF sf.name # "Ok"
        THEN [store |-> g.store, gitcfg |-> cfg, file |-> file, bak |-> bak,
              res |-> sf.name, profile |-> g.profile]
        ELSE IF sf.email # "Ok"
        THEN [store |-> g.store,
              gitcfg |-> set_user_name(cfg, scope, g.profile.username, "Ok"),
              file |-> file, bak |-> bak, res |-> sf.email, profile |-> g.profile]
        ELSE CHOOSE r2 \in {
               [store |-> g.store,
                gitcfg |-> set_user_email(set_user_name(cfg, scope, g.profile.username, "Ok"),
                                          scope, g.profile.email, "Ok"),
                file |-> u.file, bak |-> u.bak, res |-> u.res, profile |-> g.profile]
               : u \in {add_or_update_host(file, bak, g.profile, sf.ssh)} } : TRUE
        : g \in {get_profile(st, name, sf.load)} } : TRUE

\* TuiApp::ui: what drawing the frame of the state does to the store and
\* to the state.  render_list_profiles, render_switch_profile and
\* render_confirm_switch call get_all_profiles; render_list_profiles (when
\* there are profiles) and render_status call get_current_status;
\* render_confirm_switch leaves the ConfirmSwitch state when the profiles
\* cannot be loaded or the index is past their end.
ui(t, st, cfg, repo, fault) ==
    IF t.state \in {"MainMenu", "Message"} THEN [tui |-> t, store |-> st]
    ELSE IF t.state = "Status"
    THEN [tui |-> t, store |-> get_current_status(st, cfg, repo, NoGetFaults).store]
    ELSE CHOOSE r \in {
           IF t.state = "SwitchProfile" THEN [tui |-> t, store |-> a.store]
           ELSE IF t.state = "ListProfiles"
           THEN [tui |-> t,
                 store |-> IF a.res = "Ok" /\ a.out.profiles # <<>>
                           THEN get_current_status(a.store, cfg, repo, NoGetFaults).store
                           ELSE a.store]
           ELSE IF a.res # "Ok" THEN [tui |-> Message(t, TRUE), store |-> a.store]
           ELSE IF t.profile_index >= Len(a.out.profiles)
           THEN [tui |-> SetState(t, "MainMenu"), store |-> a.store]
           ELSE [tui |-> t, store |-> a.store]
           : a \in {get_all_profiles(st, fault)} } : TRUE

\* handle_main_menu_input
handle_main_menu_input(t, key) ==
    CASE key = "Up" ->
           IF t.selected_menu_item > 0
           THEN [t EXCEPT !.selected_menu_item = @ - 1, !.selected = t.selected_menu_item - 1]
           ELSE t
      [] key = "Down" ->
           IF t.selected_menu_item < 3
           THEN [t EXCEPT !.selected_menu_item = @ + 1, !.selected = t.selected_menu_item + 1]
           ELSE t
      [] key = "1" \/ (key = "Enter" /\ t.selected_menu_item = 0) ->
           [SetState(t, "ListProfiles") EXCEPT !.selected = 0]
      [] key = "2" \/ (key = "Enter" /\ t.selected_menu_item = 1) ->
           [SetState(t, "SwitchProfile") EXCEPT !.selected = 0]
      [] key = "3" \/ (key = "Enter" /\ t.selected_menu_item = 2) ->
           SetState(t, "Status")
      [] key \in {"4", "q", "Esc", "CtrlC"} \/ (key = "Enter" /\ t.selected_menu_item = 3) ->
           [t EXCEPT !.should_quit = TRUE]
      [] OTHER -> t

\* KeyCode::Up and KeyCode::Down of the two profile lists; count is
\* get_all_profiles().map(|p| p.len()).unwrap_or(0).
saturating_sub(a, b) == IF a >= b THEN a - b ELSE 0
list_up(t) == IF t.selected > 0 THEN [t EXCEPT !.selected = @ - 1] ELSE t
list_down(t, count) ==
    IF t.selected < saturating_sub(count, 1) THEN [t EXCEPT !.selected = @ + 1] ELSE t

\* handle_list_profiles_input
handle_list_profiles_input(t, key, count) ==
    CASE key = "Esc" -> BackToMainMenu(t)
      [] key = "Up" -> list_up(t)
      [] key = "Down" -> list_down(t, count)
      [] OTHER -> t

\* handle_switch_profile_input
handle_switch_profile_input(t, key, count) ==
    CASE key = "Esc" -> BackToMainMenu(t)
      [] key = "Up" -> list_up(t)
      [] key = "Down" -> list_down(t, count)
      [] key \in {"g", "G"} -> [t EXCEPT !.selected_scope = "Global"]
      [] key \in {"l", "L"} -> [t EXCEPT !.selected_scope = "Local"]
      [] key = "Enter" -> ConfirmSwitch(t, t.selected, t.selected_scope)
      [] OTHER -> t

\* handle_status_input
handle_status_input(t, key) == IF key = "Esc" THEN BackToMainMenu(t) ELSE t

\* handle_message_input
handle_message_input(t, key) == IF key \in {"Esc", "Enter"} THEN BackToMainMenu(t) ELSE t

\* handle_confirm_input in which Esc leaves for the main menu.
handle_confirm_input_no_esc(t, key) ==
    IF key \in {"n", "N"} THEN SetState(t, "SwitchProfile")
    ELSE IF key = "Esc" THEN BackToMainMenu(t) ELSE t

\* handle_confirm_input, for the keys that do not switch.
handle_confirm_input_no(t, key) ==
    IF key \in {"n", "N", "Esc"} THEN SetState(t, "SwitchProfile") ELSE t

\* The faults one key press can meet: none, or one of the load of the
\* handler's get_all_profiles, the load of switch_profile, its two runs of
\* git, its write of the SSH file.
NoTuiFaults == [list |-> "none", load |-> "none", name |-> "Ok", email |-> "Ok", ssh |-> "none"]
TuiFaults ==
    {NoTuiFaults}
    \cup {[NoTuiFaults EXCEPT !.list = f] : f \in StoreFaults}
    \cup {[NoTuiFaults EXCEPT !.load = "read"], [NoTuiFaults EXCEPT !.name = "Io"],
          [NoTuiFaults EXCEPT !.email = "Io"], [NoTuiFaults EXCEPT !.ssh = "write"]}

\* The stores the menu can find.  In the last one two profiles have the
\* same name.
TuiInitStores ==
    {MissingStore, CorruptStore, EmptyStore, StoreOf(<<ProfW>>), StoreOf(<<ProfW, ProfW2>>),
     StoreOf(<<ProfW, ProfQ>>)}

InitTui ==
    /\ sshFile = NoFile
    /\ sshBak = NoFile
    /\ lastOp = NoOp
    /\ store \in TuiInitStores
    /\ keyFiles = {KeyA, KeyB}
    /\ isRepo = FALSE
    /\ gitcfg = [sc \in Scopes |-> NoIdentity]
    /\ pc = "idle"
    /\ call = NoCall
    /\ snap = NoSnap
    /\ returned = "none"
    /\ calls = 0
    /\ clock = 1
    /\ mop = NoMop
    /\ status = NoStatus
    /\ procs = NoProcs
    /\ vcall = NoVCall
    /\ tui = NoTui

\* The TuiApp after a handler: run_app draws next.
After(t, key, invoked) ==
    [t EXCEPT !.phase = "draw", !.key = key, !.invoked = invoked, !.keys = @ + 1]

Handled(t, key, invoked) == tui' = After(t, key, invoked)

\* run_app reads a key in the state.
KeyRead(state) == tui.phase = "key" /\ tui.state = state /\ tui.keys < MaxKeys

\* run_app: terminal.draw(|f| self.ui(f)), unless should_quit ended the loop.
TuiDraw(fault) ==
    /\ tui.phase = "draw" /\ ~tui.should_quit
    /\ fault \in LoadFaults(store)
    /\ fault = "none" \/ tui.state \in {"ListProfiles", "SwitchProfile", "ConfirmSwitch"}
    /\ \E d \in {ui(tui, store, gitcfg, isRepo, fault)} :
          /\ tui' = [d.tui EXCEPT !.phase = "key"]
          /\ store' = d.store
    /\ UNCHANGED <<sshVars, keyFiles, isRepo, gitcfg, switchVars, mgrVars, vcall>>

\* A key read in a state whose handler calls nothing.
TuiKey(state, t) ==
    /\ KeyRead(state)
    /\ Handled(t, "none", FALSE)
    /\ UNCHANGED <<sshVars, envVars, switchVars, mgrVars, vcall>>

MainMenuInput(key) == TuiKey("MainMenu", handle_main_menu_input(tui, key))

StatusInput(key) == TuiKey("Status", handle_status_input(tui, key))

MessageInput(key) == TuiKey("Message", handle_message_input(tui, key))

\* A key read in one of the two profile lists: Down loads the profiles.
\* after[n] is the TuiApp that the handler leaves when there are n profiles.
ListKey(state, key, fault, after) ==
    /\ KeyRead(state)
    /\ fault \in LoadFaults(store)
    /\ fault = "none" \/ key = "Down"
    /\ IF key = "Down"
       THEN \E a \in {get_all_profiles(store, fault)} :
               /\ store' = a.store
               /\ Handled(after[IF a.res = "Ok" THEN Len(a.out.profiles) ELSE 0], "none", FALSE)
       ELSE /\ store' = store
            /\ Handled(after[0], "none", FALSE)
    /\ UNCHANGED <<sshVars, keyFiles, isRepo, gitcfg, switchVars, mgrVars, vcall>>

ListProfilesInput(key, fault) ==
    ListKey("ListProfiles", key, fault,
            [n \in 0..MaxProfiles |-> handle_list_profiles_input(tui, key, n)])

SwitchProfileInput(key, fault) ==
    ListKey("SwitchProfile", key, fault,
            [n \in 0..MaxProfiles |-> handle_switch_profile_input(tui, key, n)])

\* handle_confirm_input: 'y' or 'Y' loads the profiles and, when the index
\* is one of theirs, calls switch_profile with the name at the index and
\* the scope of the state; the result decides the Message state.
ConfirmInput(key, sf) ==
    /\ KeyRead("ConfirmSwitch")
    /\ sf.list \in LoadFaults(store)
    /\ sf = NoTuiFaults \/ key \in {"y", "Y"}
    /\ IF key \in {"y", "Y"}
       THEN \E a \in {get_all_profiles(store, sf.list)} :
              IF a.res = "Ok" /\ tui.profile_index < Len(a.out.profiles)
              THEN \E r \in {switch_profile(a.store, keyFiles, isRepo, gitcfg, sshFile, sshBak,
                                            a.out.profiles[tui.profile_index + 1].name,
                                            tui.scope, sf)} :
                      /\ store' = r.store
                      /\ gitcfg' = r.gitcfg
                      /\ sshFile' = r.file
                      /\ sshBak' = r.bak
                      /\ call' = [name |-> a.out.profiles[tui.profile_index + 1].name,
                                  scope |-> tui.scope, profile |-> r.profile,
                                  failedAt |-> "none"]
                      /\ returned' = r.res
                      /\ Handled(Message(tui, r.res # "Ok"), key, TRUE)
              ELSE /\ store' = a.store
                   /\ Handled(tui, key, FALSE)
                   /\ UNCHANGED <<sshFile, sshBak, gitcfg, call, returned>>
       ELSE /\ Handled(handle_confirm_input_no(tui, key), key, FALSE)
            /\ UNCHANGED <<sshFile, sshBak, store, gitcfg, call, returned>>
    /\ UNCHANGED <<lastOp, keyFiles, isRepo, pc, snap, calls, mgrVars, vcall>>

\* Another gex process deletes a profile (gex delete) while the menu runs.
OtherProcessDelete(name) ==
    /\ \E r \in {delete_profile(store, name, "none")} :
          /\ r.res = "Ok"
          /\ store' = r.store
    /\ clock' = clock + 1
    /\ UNCHANGED <<sshVars, keyFiles, isRepo, gitcfg, switchVars, mop, status, procs, uiVars>>

NextTui ==
    \/ \E f \in StoreFaults : TuiDraw(f)
    \/ \E k \in Keys : MainMenuInput(k)
    \/ \E k \in Keys, f \in StoreFaults : ListProfilesInput(k, f)
    \/ \E k \in Keys, f \in StoreFaults : SwitchProfileInput(k, f)
    \/ \E k \in Keys : StatusInput(k)
    \/ \E k \in Keys : MessageInput(k)
    \/ \E k \in Keys, sf \in TuiFaults : ConfirmInput(k, sf)
    \/ \E n \in Names : OtherProcessDelete(n)

SpecTui == InitTui /\ [][NextTui]_vars

---------------------------------------------------------------------------
(* C30: the menu and switch_profile, under SpecTui *)

\* This step is run_app handling a key in the ConfirmSwitch state.
ConfirmStep == tui.phase = "key" /\ tui.state = "ConfirmSwitch" /\ tui'.keys = tui.keys + 1

\* This step called switch_profile, or changed what only switch_profile
\* changes.
SwitchInvoked ==
    \/ tui'.keys = tui.keys + 1 /\ tui'.invoked
    \/ <<call, returned, gitcfg, sshFile, sshBak>>' # <<call, returned, gitcfg, sshFile, sshBak>>

\* The profile at the index of the ConfirmSwitch state, in the store as the
\* handler finds it.
Confirmed == store.profiles[tui.profile_index + 1]

\* C30: switch_profile is called only by the handler of the ConfirmSwitch
\* state, on 'y' or 'Y', with the name of the profile at the state's index
\* in the store as it is then and with the state's scope; the next state is
\* Message, with is_error set exactly if switch_profile did not return Ok.
\* A switch that returned Ok has set the identity of the first stored
\* profile of that name, which is the profile at the index when names are
\* unique.  On 'n', 'N' or Esc the handler goes to SwitchProfile, calls
\* nothing and changes nothing else.
C30_SwitchOnlyOnConfirm ==
    [][ /\ SwitchInvoked =>
              /\ ConfirmStep
              /\ tui'.key \in {"y", "Y"} /\ tui'.invoked
              /\ store.state = "ok" /\ tui.profile_index < Len(store.profiles)
              /\ call'.name = Confirmed.name
              /\ call'.scope = tui.scope
              /\ tui'.state = "Message"
              /\ tui'.is_error <=> returned' # "Ok"
              /\ returned' = "Ok" =>
                    /\ call'.profile = store.profiles[FindIndex(store.profiles, Confirmed.name)]
                    /\ gitcfg'[tui.scope] = Identity(call'.profile)
                    /\ UniqueNames(store.profiles) => call'.profile = Confirmed
        /\ (ConfirmStep /\ tui'.key \in {"n", "N", "Esc"}) =>
              /\ tui'.state = "SwitchProfile"
              /\ ~tui'.invoked
              /\ UNCHANGED <<store, call, returned, gitcfg, sshFile, sshBak>>
              /\ tui'.selected = tui.selected /\ tui'.selected_scope = tui.selected_scope
      ]_vars

\* Witness of C30: 'y' in ConfirmSwitch for the second of two profiles and
\* scope Global: switch_profile was called for w2 and returned Ok, git's
\* global identity is that of w2, and the menu shows a Message that is not
\* an error.
C30_Witness ==
    /\ tui.state = "Message" /\ ~tui.is_error
    /\ tui.key = "y" /\ tui.invoked
    /\ call.name = NameW2 /\ call.scope = "Global"
    /\ returned = "Ok"
    /\ gitcfg["Global"] = Identity(ProfW2)
    /\ store.state = "ok" /\ Len(store.profiles) = 2 /\ store.profiles[2] = ProfW2

====
